---- MODULE Spec2Model ----
(***************************************************************************)
(* RFM customer segmentation: the metric aggregator, the feature           *)
(* normalizer, the K-means clustering engine, the elbow K selection and    *)
(* the analysis run of RfmService, modelled from the TypeScript sources.   *)
(*                                                                         *)
(* Numbers.  JavaScript numbers are modelled as exact fixed-point values:  *)
(* a normalized coordinate x in [0,1] is the integer x * Scale.  Scale is  *)
(* a multiple of every divisor the code can divide by within the bounds    *)
(* (axis ranges up to MaxVal, cluster sizes up to MaxN), so normalize()    *)
(* and the centroid means are exact.  Euclidean distances are compared by  *)
(* their squares (sqrt is monotone).  Math.random() is a nondeterministic  *)
(* choice.                                                                 *)
(***************************************************************************)
EXTENDS Integers, Sequences, FiniteSets, TLC

VARIABLES
    \* ---- KMeansService.performKMeansClustering / runKMeansAlgorithm
    metrics,            \* RFMMetrics[] handed to the clustering
    k,                  \* requested number of clusters
    normalizedData,     \* number[][] from normalizeData
    centroids,          \* let centroids
    previousCentroids,  \* let previousCentroids
    iterations,         \* let iterations
    loopClusters,       \* const clusters of the loop body
    clusters,           \* finalClusters, the returned assignment
    kmPc,               \* position inside performKMeansClustering
    loopBodies,         \* history: number of executed bodies of the main loop
    \* ---- RFMCalculatorService (metric aggregator)
    customers,          \* the fetched customers list
    orders,             \* the orders collection (all statuses)
    now,                \* currentDate, in ticks
    rfmOut,             \* the list returned by the aggregator
    aggPc,              \* which aggregator produced rfmOut
    \* ---- KMeansService.findOptimalK
    nMetrics,           \* metrics.length seen by findOptimalK
    kLoop,              \* loop variable k of the sweep
    wcssValues,         \* const wcssValues
    trials,             \* history: the K of every performKMeansClustering trial
    optimalK,           \* the returned K
    elbowPc,
    \* ---- RfmService.runRFMAnalysis
    runPc,              \* position inside runRFMAnalysis
    rawMetrics,         \* const rawMetrics
    clusteringCalls,    \* history: calls of performEnhancedClustering
    outcome,            \* how the run ended: "none" | "returned" | "threw"
    result,             \* the ClusteringResult returned
    stored,             \* the persisted collections
    fetchFailed,        \* history: a fetch of the run failed
    \* ---- KMeansService.performKMeansClustering, steps 3 to 6
    clusterStats,       \* const clusterStats
    rankedClusters,     \* const rankedClusters (also the returned centers)
    clusteredMetrics,   \* const clusteredMetrics
    evalWcss,           \* const wcss of step 6
    silhouetteScore,    \* const silhouetteScore
    \* ---- SegmentationSchedulerService and RfmService.shouldRunSegmentation
    clock,              \* the current time, in ticks
    analysisResults,    \* created_at of the stored analysis results
    started,            \* history: start() has been called
    timeoutPending,     \* the setTimeout of start() has not fired yet
    intervalId,         \* this.intervalId: "null" | "set"
    nextFire,           \* the tick the pending timer is due at, -1 if none
    stopped,            \* history: stop() has been called
    schedPc,            \* position inside checkAndRunSegmentation
    shouldRun,          \* what shouldRunSegmentation returned last
    readFailed,         \* history: the read of that call failed
    readFailures,       \* history: reads that failed so far
    manualRuns,         \* history: runRFMAnalysis calls of runManually
    \* ---- RfmService.runRFMAnalysis, one or two runs on the shared store
    procPc,             \* position of each run inside runRFMAnalysis
    collections,        \* the documents of the three collections
    clearing,           \* the clearCollection calls of each run
    fetchCount          \* history: fetches of customers and orders per run

kmVars    == <<metrics, k, normalizedData, centroids, previousCentroids,
               iterations, loopClusters, clusters, kmPc, loopBodies>>
aggVars   == <<customers, orders, now, rfmOut, aggPc>>
elbowVars == <<nMetrics, kLoop, wcssValues, trials, optimalK, elbowPc>>
runVars   == <<runPc, rawMetrics, clusteringCalls, outcome, result, stored, fetchFailed>>
resultVars == <<clusterStats, rankedClusters, clusteredMetrics, evalWcss, silhouetteScore>>
schedVars == <<clock, analysisResults, started, timeoutPending, intervalId, nextFire,
               stopped, schedPc, shouldRun, readFailed, readFailures, manualRuns>>
storeVars == <<procPc, collections, clearing, fetchCount>>
extVars   == <<schedVars, storeVars>>
vars      == <<kmVars, aggVars, elbowVars, runVars, resultVars, extVars>>

-----------------------------------------------------------------------------
(* Bounds of the model *)

MaxN == 3
MaxK == 2
MaxLiveN == 2
MaxVal == 2
ScaleCap == 12000
MaxCustomers == 2
MaxOrders == 3
TicksPerDay == 2
MaxElbowN == 18
MaxWcss == 2
MaxLabelN == 4
MaxLabelK == 5
MaxEnhN == 4
MaxSilN == 3
MaxFreshN == 3

(* Program constants *)

maxIterations == 100
ThresholdInverse == 10000

-----------------------------------------------------------------------------
(* Arithmetic helpers *)

Abs(x) == IF x < 0 THEN 0 - x ELSE x

Min2(a, b) == IF a <= b THEN a ELSE b

Max2(a, b) == IF a >= b THEN a ELSE b

RECURSIVE Gcd(_, _)
Gcd(a, b) == IF b = 0 THEN a ELSE Gcd(b, a % b)

RECURSIVE LcmUpTo(_)
LcmUpTo(n) == IF n <= 1 THEN 1
              ELSE LET l == LcmUpTo(n - 1) IN (l * n) \div Gcd(l, n)

BaseScale == LcmUpTo(MaxVal) * LcmUpTo(MaxN)

\* The fixed-point unit: the largest multiple of BaseScale below ScaleCap.
Scale == BaseScale * (ScaleCap \div BaseScale)

RECURSIVE SumSeq(_)
SumSeq(s) == IF s = <<>> THEN 0 ELSE Head(s) + SumSeq(Tail(s))

\* Math.min(...values) / Math.max(...values) of a non-empty list
RECURSIVE MinSeq(_)
MinSeq(s) == IF Len(s) = 1 THEN s[1] ELSE Min2(s[1], MinSeq(Tail(s)))

RECURSIVE MaxSeq(_)
MaxSeq(s) == IF Len(s) = 1 THEN s[1] ELSE Max2(s[1], MaxSeq(Tail(s)))


Dims == 1..3

-----------------------------------------------------------------------------
(* Input domains *)

\* Raw (recency, frequency, monetary) values the clustering runs are fed
\* with; every axis range divides Scale.
SampleRecords == { <<0, 2, 2>>, <<2, 1, 0>>, <<0, 1, 1>> }

\* An RFMMetrics object (src/classes/RFM.ts); rfm_score is '' in the
\* enhanced aggregator and is not read by the clustering.
Metric(uid, r, f, m) == [user_id |-> uid, recency |-> r, frequency |-> f, monetary |-> m]

MetricsOver(recs, n) ==
    { [i \in 1..n |-> Metric(i, t[i][1], t[i][2], t[i][3])] : t \in [1..n -> recs] }

\* Outcomes of [Math.random(), Math.random(), Math.random()] (each draw in
\* [0,1)), in Scale units: a point closer to the origin than the convergence
\* threshold, and a point far from it.
ReseedPoints == { <<0, 1, 0>>, <<Scale \div 2, 0, Scale \div 2>> }

\* The four customers of the worked example, monetary amounts 5000000,
\* 200000, 4500000 and 150000 in units of 50000
FourCustomers ==
    << Metric(1, 5, 10, 100), Metric(2, 60, 1, 4), Metric(3, 3, 8, 90), Metric(4, 90, 1, 3) >>

\* The draws sampled for a population: on the four customers also a draw
\* that is farther from each of them than their common mean is
ReseedSample(ms) ==
    IF ms = FourCustomers THEN ReseedPoints \cup { <<Scale - 1, Scale - 1, 0>> }
    ELSE ReseedPoints

-----------------------------------------------------------------------------
(* KMeansService: the feature normalizer *)

\* Faulty variant: a degenerate axis mapped to the middle of the range
normalizeDegenerateMiddle(value, min, max) ==
    IF max = min THEN Scale \div 2 ELSE ((value - min) * Scale) \div (max - min)

\* Faulty variant: the offset removed from the numerator only
normalizeDivideByMax(value, min, max) ==
    IF max = min THEN 0 ELSE ((value - min) * Scale) \div max

\* private normalize(value, min, max)
normalize(value, min, max) ==
    IF max = min THEN 0 ELSE ((value - min) * Scale) \div (max - min)

\* private normalizeData(metrics)
normalizeData(ms) ==
    LET recencyValues   == [i \in 1..Len(ms) |-> ms[i].recency]
        frequencyValues == [i \in 1..Len(ms) |-> ms[i].frequency]
        monetaryValues  == [i \in 1..Len(ms) |-> ms[i].monetary]
        stats == [recency   |-> [min |-> MinSeq(recencyValues),   max |-> MaxSeq(recencyValues)],
                  frequency |-> [min |-> MinSeq(frequencyValues), max |-> MaxSeq(frequencyValues)],
                  monetary  |-> [min |-> MinSeq(monetaryValues),  max |-> MaxSeq(monetaryValues)]]
    IN  [i \in 1..Len(ms) |->
            << normalize(ms[i].recency,   stats.recency.min,   stats.recency.max),
               normalize(ms[i].frequency, stats.frequency.min, stats.frequency.max),
               normalize(ms[i].monetary,  stats.monetary.min,  stats.monetary.max) >>]

-----------------------------------------------------------------------------
(* KMeansService: the clustering engine *)

\* euclideanDistance(point1, point2), squared
euclideanDistance2(point1, point2) ==
    SumSeq([d \in Dims |-> (point1[d] - point2[d]) * (point1[d] - point2[d])])

Infinity == -1

\* Faulty variant: a centroid at the same distance replaces the closest one
DistLessOrEqual(d, minDistance) == minDistance = Infinity \/ d <= minDistance

\* distance < minDistance
DistLess(d, minDistance) == minDistance = Infinity \/ d < minDistance

\* The forEach of assignClusters: scans the centroids in index order and
\* replaces the closest one on strict improvement only.
RECURSIVE ScanCentroids(_, _, _, _, _)
ScanCentroids(point, cents, index, minDistance, closestCentroid) ==
    IF index >= Len(cents) THEN closestCentroid
    ELSE LET distance == euclideanDistance2(point, cents[index + 1])
         IN  IF DistLess(distance, minDistance)
             THEN ScanCentroids(point, cents, index + 1, distance, index)
             ELSE ScanCentroids(point, cents, index + 1, minDistance, closestCentroid)

\* Faulty variant: cluster ids counted from 1
assignClustersOneBased(data, cents) ==
    [i \in 1..Len(data) |-> ScanCentroids(data[i], cents, 0, Infinity, 0) + 1]

\* private assignClusters(data, centroids): cluster ids are 0-based
assignClusters(data, cents) ==
    [i \in 1..Len(data) |-> ScanCentroids(data[i], cents, 0, Infinity, 0)]

\* data.filter((_, index) => clusters[index] === i), as the set of indices
ClusterPoints(cl, i) == { j \in 1..Len(cl) : cl[j] = i }

\* One new centroid: the coordinate-wise mean of the cluster's points, or
\* the random point when no point was assigned to it.
NewCentroid(data, cl, i, random) ==
    IF ClusterPoints(cl, i) = {} THEN random
    ELSE [d \in Dims |->
             SumSeq([j \in 1..Len(data) |-> IF cl[j] = i THEN data[j][d] ELSE 0])
                 \div Cardinality(ClusterPoints(cl, i))]

\* Faulty variant: a cluster that received no point loses its centroid
updateCentroidsDropEmpty(data, cl, kk, randoms) ==
    LET all  == [i \in 1..kk |-> [empty |-> ClusterPoints(cl, i - 1) = {},
                                  centroid |-> NewCentroid(data, cl, i - 1, randoms[i])]]
        kept == SelectSeq(all, LAMBDA e : ~e.empty)
    IN  [i \in 1..Len(kept) |-> kept[i].centroid]

\* private updateCentroids(data, clusters, k); randoms[i] is what the three
\* Math.random() calls give if cluster i - 1 is empty
updateCentroids(data, cl, kk, randoms) ==
    [i \in 1..kk |-> NewCentroid(data, cl, i - 1, randoms[i])]

\* private centroidsConverged(current, previous, threshold = 0.0001)
centroidsConverged(current, previous) ==
    IF Len(previous) = 0 THEN FALSE
    ELSE \A index \in 1..Len(current) : \A d \in Dims :
            Abs(current[index][d] - previous[index][d]) * ThresholdInverse < Scale

\* The random points updateCentroids draws: one per empty cluster (no draw
\* is made for a cluster that received points).
RandomDraws(cl, kk) ==
    { r \in [1..kk -> ReseedSample(metrics) \cup {<<>>}] :
        \A i \in 1..kk : (r[i] = <<>>) <=> (ClusterPoints(cl, i - 1) # {}) }

\* k-means++: squared distance of a point to its nearest chosen centroid
MinDistance2(point, cents) ==
    MinSeq([c \in 1..Len(cents) |-> euclideanDistance2(point, cents[c])])

\* The indices j (1-based) the sampling loop of
\* initializeCentroidsKMeansPlusPlus can stop at: the first j with
\* cumulativeDistance >= randomValue, randomValue = Math.random() * total
\* in [0, total).  randomValue = 0 stops at the first point; any other point
\* is reachable exactly when its own weight is positive.
PlusPlusChoices(data, cents) ==
    { j \in 1..Len(data) : j = 1 \/ MinDistance2(data[j], cents) > 0 }

\* Faulty variant: the iteration cap tested with <= instead of <
LoopConditionOffByOne ==
    ~centroidsConverged(centroids, previousCentroids) /\ iterations <= maxIterations

\* while (!centroidsConverged(...) && iterations < maxIterations)
LoopCondition ==
    ~centroidsConverged(centroids, previousCentroids) /\ iterations < maxIterations

(* performKMeansClustering, step 1 *)
NormalizeStep ==
    /\ kmPc = "normalize"
    /\ normalizedData' = normalizeData(metrics)
    /\ kmPc' = "seed"
    /\ UNCHANGED <<metrics, k, centroids, previousCentroids, iterations, loopClusters, clusters, loopBodies>>
    /\ UNCHANGED <<aggVars, elbowVars, runVars, resultVars, extVars>>

(* initializeCentroidsKMeansPlusPlus: the first centroid *)
SeedFirst ==
    /\ kmPc = "seed"
    /\ centroids = <<>>
    /\ \E firstIndex \in 1..Len(normalizedData) :
          centroids' = <<normalizedData[firstIndex]>>
    /\ kmPc' = IF 1 < k THEN "seed" ELSE "loop"
    /\ previousCentroids' = <<>>
    /\ iterations' = 0
    /\ UNCHANGED <<metrics, k, normalizedData, loopClusters, clusters, loopBodies>>
    /\ UNCHANGED <<aggVars, elbowVars, runVars, resultVars, extVars>>

(* initializeCentroidsKMeansPlusPlus: one pass of for (i = 1; i < k; i++) *)
SeedNext ==
    /\ kmPc = "seed"
    /\ centroids # <<>>
    /\ \E j \in PlusPlusChoices(normalizedData, centroids) :
          centroids' = Append(centroids, normalizedData[j])
    /\ kmPc' = IF Len(centroids) + 1 < k THEN "seed" ELSE "loop"
    /\ UNCHANGED <<metrics, k, normalizedData, previousCentroids, iterations, loopClusters, clusters, loopBodies>>
    /\ UNCHANGED <<aggVars, elbowVars, runVars, resultVars, extVars>>

(* runKMeansAlgorithm: the loop test passes; the first half of the body
   (previousCentroids = centroids.map(...); clusters = assignClusters(...)) *)
AssignStep ==
    /\ kmPc = "loop"
    /\ LoopCondition
    /\ previousCentroids' = centroids
    /\ loopClusters' = assignClusters(normalizedData, centroids)
    /\ loopBodies' = loopBodies + 1
    /\ kmPc' = "update"
    /\ UNCHANGED <<metrics, k, normalizedData, centroids, iterations, clusters>>
    /\ UNCHANGED <<aggVars, elbowVars, runVars, resultVars, extVars>>

(* runKMeansAlgorithm: the second half of the body
   (centroids = updateCentroids(...); iterations++) *)
UpdateStep ==
    /\ kmPc = "update"
    /\ \E randoms \in RandomDraws(loopClusters, k) :
          centroids' = updateCentroids(normalizedData, loopClusters, k, randoms)
    /\ iterations' = iterations + 1
    /\ kmPc' = "loop"
    /\ UNCHANGED <<metrics, k, normalizedData, previousCentroids, loopClusters, clusters, loopBodies>>
    /\ UNCHANGED <<aggVars, elbowVars, runVars, resultVars, extVars>>

(* runKMeansAlgorithm: the loop exit and the final assignment *)
Finish ==
    /\ kmPc = "loop"
    /\ ~LoopCondition
    /\ clusters' = assignClusters(normalizedData, centroids)
    /\ kmPc' = "done"
    /\ UNCHANGED <<metrics, k, normalizedData, centroids, previousCentroids, iterations, loopClusters, loopBodies>>
    /\ UNCHANGED <<aggVars, elbowVars, runVars, resultVars, extVars>>

IdleKM ==
    /\ metrics = <<>> /\ k = 0 /\ normalizedData = <<>> /\ centroids = <<>>
    /\ previousCentroids = <<>> /\ iterations = 0 /\ loopClusters = <<>>
    /\ clusters = <<>> /\ kmPc = "idle" /\ loopBodies = 0

IdleAgg ==
    /\ customers = <<>> /\ orders = <<>> /\ now = 0 /\ rfmOut = <<>> /\ aggPc = "idle"

IdleElbow ==
    /\ nMetrics = 0 /\ kLoop = 0 /\ wcssValues = <<>> /\ trials = <<>>
    /\ optimalK = 0 /\ elbowPc = "idle"

IdleRun ==
    /\ runPc = "idle" /\ rawMetrics = <<>> /\ clusteringCalls = 0
    /\ outcome = "none" /\ result = <<>> /\ stored = <<>> /\ fetchFailed = FALSE

IdleResult ==
    /\ clusterStats = <<>> /\ rankedClusters = <<>> /\ clusteredMetrics = <<>>
    /\ evalWcss = 0 /\ silhouetteScore = [nan |-> FALSE, value |-> 0]

Runs == {1, 2}

CollectionNames == {"segmentation", "centers", "results"}

IdleSched ==
    /\ clock = 0 /\ analysisResults = {} /\ started = FALSE
    /\ timeoutPending = FALSE /\ intervalId = "null" /\ nextFire = -1
    /\ stopped = FALSE /\ schedPc = "idle" /\ shouldRun = "none"
    /\ readFailed = FALSE /\ readFailures = 0 /\ manualRuns = 0

IdleStore ==
    /\ procPc = [p \in Runs |-> "idle"]
    /\ collections = [c \in CollectionNames |-> {}]
    /\ clearing = [p \in Runs |-> [c \in CollectionNames |-> [status |-> "none", docs |-> {}]]]
    /\ fetchCount = [p \in Runs |-> [customers |-> 0, orders |-> 0]]

IdleExt == IdleSched /\ IdleStore

(* A call performKMeansClustering(metrics, k) on a non-empty population *)
InitKM ==
    /\ IdleExt
    /\ \E n \in 1..MaxN : metrics \in MetricsOver(SampleRecords, n)
    /\ k \in 1..MaxK
    /\ normalizedData = <<>> /\ centroids = <<>> /\ previousCentroids = <<>>
    /\ iterations = 0 /\ loopClusters = <<>> /\ clusters = <<>> /\ loopBodies = 0
    /\ kmPc = "normalize"
    /\ IdleAgg /\ IdleElbow /\ IdleRun /\ IdleResult

NextKM == NormalizeStep \/ SeedFirst \/ SeedNext \/ AssignStep \/ UpdateStep \/ Finish

SpecKM == InitKM /\ [][NextKM]_vars

Done == kmPc = "done"

\* The same call over populations of up to MaxLiveN records, for the
\* termination claims
InitLive ==
    /\ IdleExt
    /\ \E n \in 1..MaxLiveN : metrics \in MetricsOver(SampleRecords, n)
    /\ k \in 1..MaxK
    /\ normalizedData = <<>> /\ centroids = <<>> /\ previousCentroids = <<>>
    /\ iterations = 0 /\ loopClusters = <<>> /\ clusters = <<>> /\ loopBodies = 0
    /\ kmPc = "normalize"
    /\ IdleAgg /\ IdleElbow /\ IdleRun /\ IdleResult

\* runKMeansAlgorithm awaits nothing: once called, the JavaScript engine
\* runs it step after step to its return.
FairSpecKM == InitLive /\ [][NextKM]_vars /\ WF_vars(NextKM)

-----------------------------------------------------------------------------
(* RFMCalculatorService: the metric aggregator.  Time is counted in ticks,  *)
(* TicksPerDay to the day (the code counts milliseconds, 1000*60*60*24 to   *)
(* the day); a created_at string is represented by the instant it parses    *)
(* to.  Identifiers are strings, '' being the falsy one.                    *)

CustomerIds == {"", "c1", "c2"}

Customer(id) == [id |-> id]

NowTick == 2 * TicksPerDay

\* (total, created_at, status): a delivered order more than a day old, one
\* less than a day old, one dated after the current time, and a pending one
OrderSamples ==
    { [total |-> 3, created_at |-> NowTick - TicksPerDay - 1, status |-> "delivered"],
      [total |-> 1, created_at |-> NowTick - 1,               status |-> "delivered"],
      [total |-> 1, created_at |-> NowTick + 1,               status |-> "delivered"],
      [total |-> 3, created_at |-> NowTick - 1,               status |-> "pending"] }

Order(uid, o) ==
    [user_id |-> uid, total |-> o.total, created_at |-> o.created_at, status |-> o.status]

AllOrders == { Order(uid, o) : uid \in CustomerIds, o \in OrderSamples }

SeqsUpTo(S, n) == UNION { [1..m -> S] : m \in 0..n }

\* getDeliveredOrders: query(..., where('status', '==', 'delivered'))
getDeliveredOrders(coll) == SelectSeq(coll, LAMBDA o : o.status = "delivered")

\* The for loop of groupOrdersByCustomer from order i on
RECURSIVE GroupLoop(_, _, _)
GroupLoop(os, i, grouped) ==
    IF i > Len(os) THEN grouped
    ELSE IF os[i].user_id = "" THEN GroupLoop(os, i + 1, grouped)
    ELSE LET userId == os[i].user_id
             had == IF userId \in DOMAIN grouped THEN grouped[userId] ELSE <<>>
         IN  GroupLoop(os, i + 1,
                       [key \in DOMAIN grouped \cup {userId} |->
                           IF key = userId THEN Append(had, os[i]) ELSE grouped[key]])

\* private groupOrdersByCustomer(orders): Record<string, Order[]>
groupOrdersByCustomer(os) == GroupLoop(os, 1, [key \in {} |-> <<>>])

\* Faulty variant: the earliest order taken for the last one
calculateCustomerMetricsEarliest(os, currentDate) ==
    LET lastOrderDate == MinSeq([i \in 1..Len(os) |-> os[i].created_at])
        recency   == (currentDate - lastOrderDate) \div TicksPerDay
        frequency == Len(os)
        monetary  == SumSeq([i \in 1..Len(os) |-> os[i].total])
    IN  [recency |-> Max2(0, recency), frequency |-> Max2(1, frequency),
         monetary |-> Max2(0, monetary)]

\* private calculateCustomerMetrics(orders, currentDate); Math.floor of the
\* day count is \div, which rounds down for negative numbers too
calculateCustomerMetrics(os, currentDate) ==
    LET lastOrderDate == MaxSeq([i \in 1..Len(os) |-> os[i].created_at])
        recency   == (currentDate - lastOrderDate) \div TicksPerDay
        frequency == Len(os)
        monetary  == SumSeq([i \in 1..Len(os) |-> os[i].total])
    IN  [recency |-> Max2(0, recency), frequency |-> Max2(1, frequency),
         monetary |-> Max2(0, monetary)]

\* The for loop of calculateMetricsForCustomers from customer i on
RECURSIVE CustomersLoop(_, _, _, _, _)
CustomersLoop(cs, i, ordersByCustomer, currentDate, rfmMetrics) ==
    IF i > Len(cs) THEN rfmMetrics
    ELSE IF cs[i].id = "" THEN CustomersLoop(cs, i + 1, ordersByCustomer, currentDate, rfmMetrics)
    ELSE IF cs[i].id \notin DOMAIN ordersByCustomer
         THEN CustomersLoop(cs, i + 1, ordersByCustomer, currentDate, rfmMetrics)
    ELSE LET m == calculateCustomerMetrics(ordersByCustomer[cs[i].id], currentDate)
         IN  CustomersLoop(cs, i + 1, ordersByCustomer, currentDate,
                           Append(rfmMetrics, Metric(cs[i].id, m.recency, m.frequency, m.monetary)))

\* Faulty variant: a customer without orders is recorded with the clamped zero
\* values instead of being skipped
RECURSIVE CustomersLoopKeepAll(_, _, _, _, _)
CustomersLoopKeepAll(cs, i, ordersByCustomer, currentDate, rfmMetrics) ==
    IF i > Len(cs) THEN rfmMetrics
    ELSE IF cs[i].id = "" THEN CustomersLoopKeepAll(cs, i + 1, ordersByCustomer, currentDate, rfmMetrics)
    ELSE IF cs[i].id \notin DOMAIN ordersByCustomer
         THEN CustomersLoopKeepAll(cs, i + 1, ordersByCustomer, currentDate,
                                   Append(rfmMetrics, Metric(cs[i].id, 0, 1, 0)))
    ELSE LET m == calculateCustomerMetrics(ordersByCustomer[cs[i].id], currentDate)
         IN  CustomersLoopKeepAll(cs, i + 1, ordersByCustomer, currentDate,
                           Append(rfmMetrics, Metric(cs[i].id, m.recency, m.frequency, m.monetary)))

calculateMetricsForCustomersKeepAll(cs, os, currentDate) ==
    CustomersLoopKeepAll(cs, 1, groupOrdersByCustomer(os), currentDate, <<>>)

\* private calculateMetricsForCustomers(customers, orders)
calculateMetricsForCustomers(cs, os, currentDate) ==
    CustomersLoop(cs, 1, groupOrdersByCustomer(os), currentDate, <<>>)

\* Faulty variant: no early return on an empty fetch, and a customer without
\* orders is recorded
calculateRFMMetricsKeepAll(cs, delivered, currentDate) ==
    calculateMetricsForCustomersKeepAll(cs, delivered, currentDate)

\* calculateRFMMetrics() of the enhanced RFMCalculatorService, given what
\* the two fetches returned
calculateRFMMetrics(cs, delivered, currentDate) ==
    IF Len(cs) = 0 \/ Len(delivered) = 0 THEN <<>>
    ELSE calculateMetricsForCustomers(cs, delivered, currentDate)

\* The customer loop of the legacy RFMCalculatorService.calculateRFMMetrics
\* (rfm-calculator.service.ts): it filters the orders per customer and does
\* not clamp.  rfm_score is left out of the records.
RECURSIVE LegacyLoop(_, _, _, _, _)
LegacyLoop(cs, i, os, currentDate, rfmMetrics) ==
    IF i > Len(cs) THEN rfmMetrics
    ELSE IF cs[i].id = "" THEN LegacyLoop(cs, i + 1, os, currentDate, rfmMetrics)
    ELSE LET customerId == cs[i].id
             customerOrders == SelectSeq(os, LAMBDA o :
                 o.user_id # "" /\ o.user_id = customerId /\ o.status = "delivered")
         IN  IF Len(customerOrders) = 0
             THEN LegacyLoop(cs, i + 1, os, currentDate, rfmMetrics)
             ELSE LET lastOrderDate ==
                          MaxSeq([j \in 1..Len(customerOrders) |-> customerOrders[j].created_at])
                      recency   == (currentDate - lastOrderDate) \div TicksPerDay
                      frequency == Len(customerOrders)
                      monetary  == SumSeq([j \in 1..Len(customerOrders) |-> customerOrders[j].total])
                  IN  LegacyLoop(cs, i + 1, os, currentDate,
                                 Append(rfmMetrics, Metric(customerId, recency, frequency, monetary)))

legacyCalculateRFMMetrics(cs, os, currentDate) == LegacyLoop(cs, 1, os, currentDate, <<>>)

(* RFMCalculatorService.calculateRFMMetrics, enhanced (services/) *)
AggregateEnhanced ==
    /\ aggPc = "ready"
    /\ rfmOut' = calculateRFMMetrics(customers, getDeliveredOrders(orders), now)
    /\ aggPc' = "enhanced"
    /\ UNCHANGED <<customers, orders, now>>
    /\ UNCHANGED <<kmVars, elbowVars, runVars, resultVars, extVars>>

(* RFMCalculatorService.calculateRFMMetrics, legacy *)
AggregateLegacy ==
    /\ aggPc = "ready"
    /\ rfmOut' = legacyCalculateRFMMetrics(customers, orders, now)
    /\ aggPc' = "legacy"
    /\ UNCHANGED <<customers, orders, now>>
    /\ UNCHANGED <<kmVars, elbowVars, runVars, resultVars, extVars>>

InitAgg ==
    /\ IdleExt
    /\ customers \in SeqsUpTo({ Customer(id) : id \in CustomerIds }, MaxCustomers)
    /\ orders \in SeqsUpTo(AllOrders, MaxOrders)
    /\ now = NowTick
    /\ rfmOut = <<>>
    /\ aggPc = "ready"
    /\ IdleKM /\ IdleElbow /\ IdleRun /\ IdleResult

NextAgg == AggregateEnhanced \/ AggregateLegacy

SpecAgg == InitAgg /\ [][NextAgg]_vars

-----------------------------------------------------------------------------
(* Properties of the metric aggregator                                      *)

Aggregated == aggPc # "ready"

\* The delivered orders of the order collection that carry the identifier id
EligibleOrders(id) ==
    SelectSeq(orders, LAMBDA o : o.user_id = id /\ o.status = "delivered")

LatestEligible(id) ==
    MaxSeq([i \in 1..Len(EligibleOrders(id)) |-> EligibleOrders(id)[i].created_at])

TotalEligible(id) ==
    SumSeq([i \in 1..Len(EligibleOrders(id)) |-> EligibleOrders(id)[i].total])

WholeDays(id) == (now - LatestEligible(id)) \div TicksPerDay

\* C3: every record the aggregator produces has frequency >= 1, monetary >= 0
\* and recency >= 0, and a customer whose eligible orders are all dated after
\* the current time gets recency 0.  The legacy aggregator breaks it.
C3_RecordsWithinRange ==
    Aggregated =>
        \A i \in 1..Len(rfmOut) :
            /\ rfmOut[i].frequency >= 1
            /\ rfmOut[i].monetary >= 0
            /\ rfmOut[i].recency >= 0
            /\ LatestEligible(rfmOut[i].user_id) > now => rfmOut[i].recency = 0

\* The customers that are to have a record, in input order
ExpectedCustomers ==
    SelectSeq(customers, LAMBDA c : c.id # "" /\ Len(EligibleOrders(c.id)) > 0)

\* The orders whose identifier is the identifier of some input customer
MatchedOrders ==
    SelectSeq(orders, LAMBDA o : \E i \in 1..Len(customers) : customers[i].id = o.user_id)

\* C4: the aggregator outputs one record per input customer with a valid
\* identifier and at least one eligible order, none for the others, in the
\* order of the input customer list; the orders that match no customer
\* contribute nothing (the output is the one computed without them).
C4_OneRecordPerCustomerWithOrders ==
    Aggregated =>
        /\ Len(rfmOut) = Len(ExpectedCustomers)
        /\ \A i \in 1..Len(rfmOut) : rfmOut[i].user_id = ExpectedCustomers[i].id
        /\ aggPc = "enhanced" =>
               rfmOut = calculateRFMMetrics(customers, getDeliveredOrders(MatchedOrders), now)
        /\ aggPc = "legacy" =>
               rfmOut = legacyCalculateRFMMetrics(customers, MatchedOrders, now)

\* Two customers recorded in input order, a delivered order of an identifier
\* that no customer has, computed by the enhanced aggregator
C4_TwoRecordsAndStrayOrder ==
    /\ aggPc = "enhanced"
    /\ Len(customers) = 2
    /\ Len(rfmOut) = 2
    /\ rfmOut[1].user_id = customers[1].id
    /\ rfmOut[2].user_id = customers[2].id
    /\ rfmOut[1].user_id # rfmOut[2].user_id
    /\ Len(MatchedOrders) < Len(getDeliveredOrders(orders))

-----------------------------------------------------------------------------
(* KMeansService.findOptimalK: the sweep over K and the elbow choice.  A    *)
(* trial (performKMeansClustering) is represented by the WCSS it reports,   *)
(* any value of WcssSamples.                                                *)

minK == 2

maxKCap == 8

WcssSamples == 0..MaxWcss

\* Faulty variant: the half rounded up
maxKRoundedUp(n) == Min2(maxKCap, (n + 1) \div 2)

\* const maxK = Math.min(8, Math.floor(metrics.length / 2))
maxK(n) == Min2(maxKCap, n \div 2)

\* Faulty variant: a later candidate of equal improvement rate replaces the earlier
RECURSIVE ElbowLoopLastTie(_, _, _, _)
ElbowLoopLastTie(w, i, best, maxImprovement) ==
    IF ~(i < Len(w) - 1) THEN best
    ELSE LET improvement     == w[i] - w[i + 1]
             nextImprovement == w[i + 1] - w[i + 2]
             improvementRate == improvement - nextImprovement
         IN  IF improvementRate >= maxImprovement
             THEN ElbowLoopLastTie(w, i + 1, minK + i, improvementRate)
             ELSE ElbowLoopLastTie(w, i + 1, best, maxImprovement)

\* Faulty variant: no K to fall back on when no candidate improves
RECURSIVE ElbowLoopZeroDefault(_, _, _, _)
ElbowLoopZeroDefault(w, i, best, maxImprovement) ==
    IF ~(i < Len(w) - 1) THEN (IF maxImprovement = 0 THEN 0 ELSE best)
    ELSE LET improvement     == w[i] - w[i + 1]
             nextImprovement == w[i + 1] - w[i + 2]
             improvementRate == improvement - nextImprovement
         IN  IF improvementRate > maxImprovement
             THEN ElbowLoopZeroDefault(w, i + 1, minK + i, improvementRate)
             ELSE ElbowLoopZeroDefault(w, i + 1, best, maxImprovement)

\* Faulty variant: the last candidate is visited too, with no improvement
\* after it
RECURSIVE ElbowLoopThroughLast(_, _, _, _)
ElbowLoopThroughLast(w, i, best, maxImprovement) ==
    IF ~(i < Len(w)) THEN best
    ELSE LET improvement     == w[i] - w[i + 1]
             nextImprovement == IF i + 2 <= Len(w) THEN w[i + 1] - w[i + 2] ELSE 0
             improvementRate == improvement - nextImprovement
         IN  IF improvementRate > maxImprovement
             THEN ElbowLoopThroughLast(w, i + 1, minK + i, improvementRate)
             ELSE ElbowLoopThroughLast(w, i + 1, best, maxImprovement)

\* The elbow loop from index i on (i as in the code; wcssValues[i] of the
\* code is w[i + 1] here)
RECURSIVE ElbowLoop(_, _, _, _)
ElbowLoop(w, i, best, maxImprovement) ==
    IF ~(i < Len(w) - 1) THEN best
    ELSE LET improvement     == w[i] - w[i + 1]
             nextImprovement == w[i + 1] - w[i + 2]
             improvementRate == improvement - nextImprovement
         IN  IF improvementRate > maxImprovement
             THEN ElbowLoop(w, i + 1, minK + i, improvementRate)
             ELSE ElbowLoop(w, i + 1, best, maxImprovement)

(* One pass of the sweep loop: a trial at k, its WCSS pushed *)
Trial ==
    /\ elbowPc = "sweep"
    /\ kLoop <= maxK(nMetrics)
    /\ \E wcss \in WcssSamples : wcssValues' = Append(wcssValues, wcss)
    /\ trials' = Append(trials, kLoop)
    /\ kLoop' = kLoop + 1
    /\ UNCHANGED <<nMetrics, optimalK, elbowPc>>
    /\ UNCHANGED <<kmVars, aggVars, runVars, resultVars, extVars>>

(* The sweep is over: the elbow loop runs and optimalK is returned *)
FindElbow ==
    /\ elbowPc = "sweep"
    /\ ~(kLoop <= maxK(nMetrics))
    /\ optimalK' = ElbowLoop(wcssValues, 1, minK, 0)
    /\ elbowPc' = "done"
    /\ UNCHANGED <<nMetrics, kLoop, wcssValues, trials>>
    /\ UNCHANGED <<kmVars, aggVars, runVars, resultVars, extVars>>

InitElbow ==
    /\ IdleExt
    /\ nMetrics \in 1..MaxElbowN
    /\ kLoop = minK
    /\ wcssValues = <<>>
    /\ trials = <<>>
    /\ optimalK = 0
    /\ elbowPc = "sweep"
    /\ IdleKM /\ IdleAgg /\ IdleRun /\ IdleResult

NextElbow == Trial \/ FindElbow

SpecElbow == InitElbow /\ [][NextElbow]_vars

ElbowDone == elbowPc = "done"

\* C9: findOptimalK runs one trial for each K from 2 to min(8, floor(n/2)),
\* in increasing K, and no other; for n = 6 the trials are K = 2 and K = 3.
C9_OneTrialPerCandidate ==
    ElbowDone =>
        LET last == IF nMetrics \div 2 < 8 THEN nMetrics \div 2 ELSE 8
        IN  /\ Len(trials) = (IF last >= 2 THEN last - 1 ELSE 0)
            /\ \A j \in 1..Len(trials) : trials[j] = j + 1
            /\ Len(wcssValues) = Len(trials)
            /\ nMetrics = 6 => trials = <<2, 3>>

\* The sweep for six records is over
C9_SixRecords == ElbowDone /\ nMetrics = 6 /\ trials = <<2, 3>>

\* WCSS recorded for candidate K, and its improvement rate
WcssAt(K) == wcssValues[K - 1]

RateAt(K) == (WcssAt(K - 1) - WcssAt(K)) - (WcssAt(K) - WcssAt(K + 1))

\* The candidates that are neither the first nor the last
InteriorK == { K \in 3..Len(wcssValues) : TRUE }

BestK == { K \in InteriorK : RateAt(K) > 0 /\ \A J \in InteriorK : RateAt(J) <= RateAt(K) }

\* C10: the returned K is the smallest interior candidate of maximal
\* improvement rate when that rate is strictly positive, and 2 otherwise.
C10_ElbowChoice ==
    ElbowDone =>
        IF BestK # {}
        THEN optimalK \in BestK /\ \A K \in BestK : optimalK <= K
        ELSE optimalK = 2

\* Two interior candidates tie on a positive maximal rate; the smaller wins
C10_TieKeepsSmaller ==
    /\ ElbowDone
    /\ \E K1, K2 \in BestK : K1 < K2 /\ optimalK = K1

-----------------------------------------------------------------------------
(* RfmService.runRFMAnalysis (services/rfm.service.ts): one analysis run,   *)
(* a step per await.  customers and orders are the two source collections;  *)
(* stored holds the three output collections: the segmentation documents,   *)
(* and the numbers of cluster-center and analysis-result documents.         *)

MaxRunOrders == 1

OldStore == [segmentation |-> <<[user_id |-> "c0", cluster_id |-> 0]>>, centers |-> 2, results |-> 1]

EmptyStore == [segmentation |-> <<>>, centers |-> 0, results |-> 0]

\* 1. rawMetrics = await this.rfmCalculator.calculateRFMMetrics(); a fetch
\* that fails is caught in getAllCustomers / getDeliveredOrders and gives []
RunCalculate ==
    /\ runPc = "start"
    /\ \E customersOk, ordersOk \in BOOLEAN :
          /\ rawMetrics' = calculateRFMMetrics(
                              IF customersOk THEN customers ELSE <<>>,
                              IF ordersOk THEN getDeliveredOrders(orders) ELSE <<>>,
                              now)
          /\ fetchFailed' = (~customersOk \/ ~ordersOk)
    /\ runPc' = "check"
    /\ UNCHANGED <<clusteringCalls, outcome, result, stored>>
    /\ UNCHANGED <<kmVars, aggVars, elbowVars, resultVars, extVars>>

\* if (rawMetrics.length === 0) throw new Error('No customer data available
\* for analysis'); the catch block rethrows it
RunNoData ==
    /\ runPc = "check"
    /\ Len(rawMetrics) = 0
    /\ outcome' = "threw"
    /\ runPc' = "done"
    /\ UNCHANGED <<rawMetrics, clusteringCalls, result, stored, fetchFailed>>
    /\ UNCHANGED <<kmVars, aggVars, elbowVars, resultVars, extVars>>

\* 2. clusteringResult = await performEnhancedClustering(rawMetrics): K from
\* the elbow choice over the sweep's WCSS values, and some assignment of
\* the records to the K clusters
RunCluster ==
    /\ runPc = "check"
    /\ Len(rawMetrics) # 0
    /\ clusteringCalls' = clusteringCalls + 1
    /\ \E w \in [1..Max2(0, maxK(Len(rawMetrics)) - 1) -> WcssSamples] :
          LET chosenK == ElbowLoop(w, 1, minK, 0)
          IN  \E cl \in [1..Len(rawMetrics) -> 0..(chosenK - 1)] :
                 result' = [optimalK |-> chosenK,
                            clusteredMetrics |->
                                [i \in 1..Len(rawMetrics) |->
                                    [user_id |-> rawMetrics[i].user_id, cluster_id |-> cl[i]]],
                            centers |-> chosenK]
    /\ runPc' = "clear"
    /\ UNCHANGED <<rawMetrics, outcome, stored, fetchFailed>>
    /\ UNCHANGED <<kmVars, aggVars, elbowVars, resultVars, extVars>>

\* clearOldAnalysisData: each collection is cleared unless its clearing
\* fails; a failure is logged and swallowed
RunClearOld ==
    /\ runPc = "clear"
    /\ \E segOk, cenOk, resOk \in BOOLEAN :
          stored' = [segmentation |-> IF segOk THEN <<>> ELSE stored.segmentation,
                     centers      |-> IF cenOk THEN 0 ELSE stored.centers,
                     results      |-> IF resOk THEN 0 ELSE stored.results]
    /\ runPc' = "saveSegmentations"
    /\ UNCHANGED <<rawMetrics, clusteringCalls, outcome, result, fetchFailed>>
    /\ UNCHANGED <<kmVars, aggVars, elbowVars, resultVars, extVars>>

\* The subsequence of s at the indices in keep
RECURSIVE Keep(_, _, _)
Keep(s, keep, i) ==
    IF i > Len(s) THEN <<>>
    ELSE (IF i \in keep THEN <<s[i]>> ELSE <<>>) \o Keep(s, keep, i + 1)

\* saveCustomerSegmentations: one addDoc per record, awaited together; when
\* one of them fails the error propagates out of runRFMAnalysis
RunSaveSegmentations ==
    /\ runPc = "saveSegmentations"
    /\ \E written \in SUBSET (1..Len(result.clusteredMetrics)) :
          /\ stored' = [stored EXCEPT !.segmentation =
                            @ \o Keep(result.clusteredMetrics, written, 1)]
          /\ IF written = 1..Len(result.clusteredMetrics)
             THEN runPc' = "saveCenters" /\ outcome' = outcome
             ELSE runPc' = "done" /\ outcome' = "threw"
    /\ UNCHANGED <<rawMetrics, clusteringCalls, result, fetchFailed>>
    /\ UNCHANGED <<kmVars, aggVars, elbowVars, resultVars, extVars>>

\* saveClusterCenters: one addDoc per center, awaited together
RunSaveCenters ==
    /\ runPc = "saveCenters"
    /\ \E written \in 0..result.centers :
          /\ stored' = [stored EXCEPT !.centers = @ + written]
          /\ IF written = result.centers
             THEN runPc' = "saveMetadata" /\ outcome' = outcome
             ELSE runPc' = "done" /\ outcome' = "threw"
    /\ UNCHANGED <<rawMetrics, clusteringCalls, result, fetchFailed>>
    /\ UNCHANGED <<kmVars, aggVars, elbowVars, resultVars, extVars>>

\* saveAnalysisMetadata, then return clusteringResult
RunSaveMetadata ==
    /\ runPc = "saveMetadata"
    /\ \E ok \in BOOLEAN :
          IF ok
          THEN stored' = [stored EXCEPT !.results = @ + 1] /\ outcome' = "returned"
          ELSE stored' = stored /\ outcome' = "threw"
    /\ runPc' = "done"
    /\ UNCHANGED <<rawMetrics, clusteringCalls, result, fetchFailed>>
    /\ UNCHANGED <<kmVars, aggVars, elbowVars, resultVars, extVars>>

InitRun ==
    /\ IdleExt
    /\ customers \in SeqsUpTo({ Customer(id) : id \in CustomerIds }, MaxCustomers)
    /\ orders \in SeqsUpTo(AllOrders, MaxRunOrders)
    /\ now = NowTick
    /\ rfmOut = <<>>
    /\ aggPc = "idle"
    /\ runPc = "start"
    /\ rawMetrics = <<>>
    /\ clusteringCalls = 0
    /\ outcome = "none"
    /\ result = [optimalK |-> 0, clusteredMetrics |-> <<>>, centers |-> 0]
    /\ stored \in {OldStore, EmptyStore}
    /\ fetchFailed = FALSE
    /\ IdleKM /\ IdleElbow /\ IdleResult

NextRun ==
    \/ RunCalculate \/ RunNoData \/ RunCluster \/ RunClearOld
    \/ RunSaveSegmentations \/ RunSaveCenters \/ RunSaveMetadata

SpecRun == InitRun /\ [][NextRun]_vars

RunDone == runPc = "done"

\* What the run's calculateRFMMetrics saw: no customer or no delivered order
NoSourceData == Len(customers) = 0 \/ Len(getDeliveredOrders(orders)) = 0

\* C8: with zero customers or zero eligible orders a run does not cluster
\* and ends by returning an empty outcome, not with an exception.  The run
\* ends with the error 'No customer data available for analysis' instead.
C8_EmptyRunReturns ==
    RunDone /\ NoSourceData => clusteringCalls = 0 /\ outcome = "returned"

\* The records the run's result holds, as the three collections
ResultStore ==
    [segmentation |-> result.clusteredMetrics, centers |-> result.centers, results |-> 1]

\* C15: after a run that completed successfully the three collections hold
\* exactly the records of that run, whatever the deletes of the clearing
\* step did.  A clearing that fails is logged and swallowed, and the run's
\* records are added to the ones that were left.
C15_FullOverwrite ==
    RunDone /\ outcome = "returned" => stored = ResultStore

\* Every step of the run is eventually taken
FairSpecRun == InitRun /\ [][NextRun]_vars /\ WF_vars(NextRun)

\* C16: when the fetch of the customers or of the delivered orders fails,
\* the run ends with an error, performs no clustering and leaves the stored
\* collections as they were.
C16_FetchFailureAborts ==
    /\ (fetchFailed ~> (RunDone /\ outcome = "threw"))
    /\ [](fetchFailed => clusteringCalls = 0 /\ runPc \in {"check", "done"})
    /\ [][fetchFailed' => stored' = stored]_vars

\* A run whose order fetch failed although a customer and a delivered order
\* exist, ended over the stored records of an earlier run
C16_OrdersFetchFailed ==
    /\ RunDone /\ fetchFailed /\ ~NoSourceData
    /\ outcome = "threw" /\ clusteringCalls = 0 /\ stored = OldStore

-----------------------------------------------------------------------------
(* KMeansService.performKMeansClustering, steps 3 to 5: the statistics of   *)
(* the clusters in the original scale, their ranking and the labels.        *)
(* Monetary amounts are counted in units of MonetaryUnit.  A mean is kept   *)
(* as the exact fraction sum / size and a composite score as an exact mixed *)
(* number of tenths, whole + num / den with num < den.                      *)

MonetaryUnit == 50 * 1000

Frac(n, d) == [num |-> n, den |-> d]

FracEq(a, b) == a.num * b.den = b.num * a.den

\* const segmentLabels
segmentLabels == <<"VIP", "Loyal", "Potential", "Pay Attention">>

\* Faulty variant: the mean taken over all the records
calculateClusterStatisticsOverAll(ms, cl, kk) ==
    [c \in 1..kk |->
        LET clusterMetrics == Keep(ms, { j \in 1..Len(ms) : cl[j] = c - 1 }, 1)
            size == Len(clusterMetrics)
        IN  IF size = 0
            THEN [cluster_id |-> c - 1, size |-> 0, avgRecency |-> Frac(0, 1),
                  avgFrequency |-> Frac(0, 1), avgMonetary |-> Frac(0, 1)]
            ELSE [cluster_id |-> c - 1, size |-> size,
                  avgRecency   |-> Frac(SumSeq([j \in 1..size |-> clusterMetrics[j].recency]), Len(ms)),
                  avgFrequency |-> Frac(SumSeq([j \in 1..size |-> clusterMetrics[j].frequency]), Len(ms)),
                  avgMonetary  |-> Frac(SumSeq([j \in 1..size |-> clusterMetrics[j].monetary]), Len(ms))]]

\* Faulty variant: a cluster without records is left out of the statistics
calculateClusterStatisticsSkipEmpty(ms, cl, kk) ==
    SelectSeq(
        [c \in 1..kk |->
            LET clusterMetrics == Keep(ms, { j \in 1..Len(ms) : cl[j] = c - 1 }, 1)
                size == Len(clusterMetrics)
            IN  IF size = 0
                THEN [cluster_id |-> c - 1, size |-> 0, avgRecency |-> Frac(0, 1),
                      avgFrequency |-> Frac(0, 1), avgMonetary |-> Frac(0, 1)]
                ELSE [cluster_id |-> c - 1, size |-> size,
                      avgRecency   |-> Frac(SumSeq([j \in 1..size |-> clusterMetrics[j].recency]), size),
                      avgFrequency |-> Frac(SumSeq([j \in 1..size |-> clusterMetrics[j].frequency]), size),
                      avgMonetary  |-> Frac(SumSeq([j \in 1..size |-> clusterMetrics[j].monetary]), size)]],
        LAMBDA st : st.size > 0)

\* private calculateClusterStatistics(metrics, clusters, k); entry c is the
\* one pushed for i = c - 1
calculateClusterStatistics(ms, cl, kk) ==
    [c \in 1..kk |->
        LET clusterMetrics == Keep(ms, { j \in 1..Len(ms) : cl[j] = c - 1 }, 1)
            size == Len(clusterMetrics)
        IN  IF size = 0
            THEN [cluster_id |-> c - 1, size |-> 0, avgRecency |-> Frac(0, 1),
                  avgFrequency |-> Frac(0, 1), avgMonetary |-> Frac(0, 1)]
            ELSE [cluster_id |-> c - 1, size |-> size,
                  avgRecency   |-> Frac(SumSeq([j \in 1..size |-> clusterMetrics[j].recency]), size),
                  avgFrequency |-> Frac(SumSeq([j \in 1..size |-> clusterMetrics[j].frequency]), size),
                  avgMonetary  |-> Frac(SumSeq([j \in 1..size |-> clusterMetrics[j].monetary]), size)]]

MixedOf(n, d) == [whole |-> n \div d, num |-> n % d, den |-> d]

MixedAdd(a, b) ==
    LET n == a.num * b.den + b.num * a.den
        d == a.den * b.den
    IN  [whole |-> a.whole + b.whole + (n \div d), num |-> n % d, den |-> d]

ScoreGreater(a, b) ==
    \/ a.whole > b.whole
    \/ a.whole = b.whole /\ a.num * b.den > b.num * a.den

ScoreEq(a, b) == a.whole = b.whole /\ a.num * b.den = b.num * a.den

\* Faulty variant: an average recency of 0 scored as the freshest, 100
compositeScoreZeroRecencyBest(cluster) ==
    LET recencyScore == IF cluster.avgRecency.num > 0
                        THEN Frac(cluster.avgRecency.den, cluster.avgRecency.num)
                        ELSE Frac(100, 1)
    IN  MixedAdd(MixedOf(3 * recencyScore.num, recencyScore.den),
                 MixedOf(3 * cluster.avgFrequency.num
                             + 4 * MonetaryUnit * cluster.avgMonetary.num,
                         cluster.avgFrequency.den))

\* composite_score of a cluster, in tenths: 3 * recencyScore +
\* 3 * frequencyScore + 4 * monetaryScore, where recencyScore is
\* 1 / avgRecency if avgRecency > 0 and 1 otherwise
compositeScore(cluster) ==
    LET recencyScore == IF cluster.avgRecency.num > 0
                        THEN Frac(cluster.avgRecency.den, cluster.avgRecency.num)
                        ELSE Frac(1, 1)
    IN  MixedAdd(MixedOf(3 * recencyScore.num, recencyScore.den),
                 MixedOf(3 * cluster.avgFrequency.num
                             + 4 * MonetaryUnit * cluster.avgMonetary.num,
                         cluster.avgFrequency.den))

\* Faulty variant: ascending order, comparator a - b
RECURSIVE InsertAscending(_, _)
InsertAscending(x, sorted) ==
    IF sorted = <<>> THEN <<x>>
    ELSE IF ScoreGreater(Head(sorted).composite_score, x.composite_score)
         THEN <<x>> \o sorted
         ELSE <<Head(sorted)>> \o InsertAscending(x, Tail(sorted))

\* x put into a list sorted by (a, b) => b.composite_score -
\* a.composite_score, behind the entries that do not compare after it
\* (Array.prototype.sort is stable)
RECURSIVE InsertDescending(_, _)
InsertDescending(x, sorted) ==
    IF sorted = <<>> THEN <<x>>
    ELSE IF ScoreGreater(x.composite_score, Head(sorted).composite_score)
         THEN <<x>> \o sorted
         ELSE <<Head(sorted)>> \o InsertDescending(x, Tail(sorted))

RECURSIVE SortFrom(_, _, _)
SortFrom(list, i, sorted) ==
    IF i > Len(list) THEN sorted
    ELSE SortFrom(list, i + 1, InsertDescending(list[i], sorted))

\* clustersWithScores.sort(...)
sortByCompositeScore(list) == SortFrom(list, 1, <<>>)

\* Faulty variant: the index wraps around the label list
segmentLabelWrapped(index) == segmentLabels[(index % Len(segmentLabels)) + 1]

\* segmentLabels[Math.min(index, segmentLabels.length - 1)]
segmentLabelAt(index) == segmentLabels[Min2(index, Len(segmentLabels) - 1) + 1]

\* private rankClustersAndAssignLabels(clusterStats)
rankClustersAndAssignLabels(stats) ==
    LET clustersWithScores ==
            [c \in 1..Len(stats) |->
                [cluster_id |-> stats[c].cluster_id, size |-> stats[c].size,
                 avgRecency |-> stats[c].avgRecency,
                 avgFrequency |-> stats[c].avgFrequency,
                 avgMonetary |-> stats[c].avgMonetary,
                 composite_score |-> compositeScore(stats[c])]]
        sorted == sortByCompositeScore(clustersWithScores)
    IN  [x \in 1..Len(sorted) |->
            [cluster_id |-> sorted[x].cluster_id,
             recency_center |-> sorted[x].avgRecency,
             frequency_center |-> sorted[x].avgFrequency,
             monetary_center |-> sorted[x].avgMonetary,
             segment_label |-> segmentLabelAt(x - 1),
             rank |-> x,
             composite_score |-> sorted[x].composite_score]]

\* labelMap.get(clusterId): the label of the last ranked cluster carrying
\* the id, "" (undefined) when there is none
labelMapGet(ranked, clusterId) ==
    LET hits == { x \in 1..Len(ranked) : ranked[x].cluster_id = clusterId }
    IN  IF hits = {} THEN ""
        ELSE ranked[CHOOSE x \in hits : \A y \in hits : y <= x].segment_label

\* private createClusteredMetrics(metrics, clusters, rankedClusters); the
\* fallback label `Cluster ${id}` is written "Cluster"
createClusteredMetrics(ms, cl, ranked) ==
    [j \in 1..Len(ms) |->
        [user_id |-> ms[j].user_id, recency |-> ms[j].recency,
         frequency |-> ms[j].frequency, monetary |-> ms[j].monetary,
         cluster_id |-> cl[j],
         segment |-> IF labelMapGet(ranked, cl[j]) # ""
                     THEN labelMapGet(ranked, cl[j]) ELSE "Cluster"]]

(* Steps 3 to 5 of performKMeansClustering *)
LabelStep ==
    /\ kmPc = "done"
    /\ clusterStats' = calculateClusterStatistics(metrics, clusters, k)
    /\ rankedClusters' = rankClustersAndAssignLabels(clusterStats')
    /\ clusteredMetrics' = createClusteredMetrics(metrics, clusters, rankedClusters')
    /\ kmPc' = "labelled"
    /\ UNCHANGED <<metrics, k, normalizedData, centroids, previousCentroids,
                   iterations, loopClusters, clusters, loopBodies>>
    /\ UNCHANGED <<evalWcss, silhouetteScore>>
    /\ UNCHANGED <<aggVars, elbowVars, runVars, extVars>>

LabelRecords == << <<0, 2, 2>>, <<2, 1, 0>>, <<0, 1, 1>> >>

\* n records that go round LabelRecords from position first on
LabelMetrics(n, first) ==
    [i \in 1..n |->
        LET t == LabelRecords[((first + i - 2) % Len(LabelRecords)) + 1]
        IN  Metric(i, t[1], t[2], t[3])]

(* Steps 3 to 5 on records of equal and of different values and any
   assignment of them to k clusters *)
InitLabel ==
    /\ IdleExt
    /\ \E n \in 1..MaxLabelN : \E first \in 1..Len(LabelRecords) :
          metrics = LabelMetrics(n, first)
    /\ k \in 1..MaxLabelK
    /\ clusters \in [1..Len(metrics) -> 0..(k - 1)]
    /\ normalizedData = normalizeData(metrics)
    /\ centroids = <<>> /\ previousCentroids = <<>> /\ loopClusters = <<>>
    /\ iterations = 0 /\ loopBodies = 0
    /\ kmPc = "done"
    /\ IdleAgg /\ IdleElbow /\ IdleRun /\ IdleResult

NextLabel == LabelStep

SpecLabel == InitLabel /\ [][NextLabel]_vars

Labelled == kmPc = "labelled"

-----------------------------------------------------------------------------
(* KMeansService.performKMeansClustering, step 6: the evaluation metrics.   *)
(* A distance is the square root rounded down to the grid of the            *)
(* coordinates (it is 0 exactly when the points coincide); a silhouette is  *)
(* counted in units of 1 / SilUnit, rounded down; a NaN is flagged.         *)

SilUnit == 10 * 100

\* The largest r in lo..hi with r * r <= x, by bisection
RECURSIVE SqrtBetween(_, _, _)
SqrtBetween(x, lo, hi) ==
    IF lo >= hi THEN lo
    ELSE CHOOSE r \in { IF mid * mid <= x THEN SqrtBetween(x, mid, hi)
                        ELSE SqrtBetween(x, lo, mid - 1) :
                            mid \in {(lo + hi + 1) \div 2} } : TRUE

\* private euclideanDistance(point1, point2): Math.sqrt of the sum of squares
euclideanDistance(point1, point2) ==
    CHOOSE r \in { SqrtBetween(sum, 0, 2 * Scale) :
                       sum \in {euclideanDistance2(point1, point2)} } : TRUE

\* private calculateWCSS(data, centroids, clusters)
calculateWCSS(data, cents, cl) ==
    SumSeq([i \in 1..Len(data) |->
               LET distance == euclideanDistance(data[i], cents[cl[i] + 1])
               IN  distance * distance])

FracLess(a, b) == a.num * b.den < b.num * a.den

\* The mean distance from point i to the points with indices in others
MeanDistance(data, i, others) ==
    Frac(SumSeq([j \in 1..Len(data) |->
                    IF j \in others THEN euclideanDistance(data[i], data[j]) ELSE 0]),
         Cardinality(others))

\* Math.min(...) of a non-empty set of means
MinFrac(means) == CHOOSE m \in means : \A m2 \in means : ~FracLess(m2, m)

\* (b - a) / Math.max(a, b), [nan |-> TRUE] for NaN
silhouetteFrom(a, b) ==
    LET difference == b.num * a.den - a.num * b.den
        largest == Max2(a.num * b.den, b.num * a.den)
    IN  IF largest = 0
        THEN \* a = b = 0: 0 / 0
             [nan |-> TRUE, value |-> 0]
        ELSE [nan |-> FALSE, value |-> (difference * SilUnit) \div largest]

\* One pass of data.forEach in calculateSilhouetteScore: the silhouette of
\* point i
silhouetteOf(data, cl, i) ==
    LET cluster == cl[i]
        sameClusterPoints == { j \in 1..Len(data) : cl[j] = cluster /\ j # i }
        otherClusters == { cl[j] : j \in 1..Len(data) } \ {cluster}
    IN  IF otherClusters = {}
        THEN \* b = Math.min() = Infinity: (Infinity - a) / Infinity
             [nan |-> TRUE, value |-> 0]
        ELSE CHOOSE silhouette \in
                 { silhouetteFrom(a, MinFrac(means)) :
                     a \in { IF sameClusterPoints # {}
                             THEN MeanDistance(data, i, sameClusterPoints)
                             ELSE Frac(0, 1) },
                     means \in { { MeanDistance(data, i,
                                       { j \in 1..Len(data) : cl[j] = c }) :
                                       c \in otherClusters } } } : TRUE

\* private calculateSilhouetteScore(data, clusters)
calculateSilhouetteScore(data, cl) ==
    IF Len(data) <= 1 THEN [nan |-> FALSE, value |-> 0]
    ELSE LET silhouetteScores == [i \in 1..Len(data) |-> silhouetteOf(data, cl, i)]
         IN  IF \E i \in 1..Len(data) : silhouetteScores[i].nan
             THEN [nan |-> TRUE, value |-> 0]
             ELSE [nan |-> FALSE,
                   value |-> SumSeq([i \in 1..Len(data) |-> silhouetteScores[i].value])
                                 \div Len(data)]

(* Step 6 of performKMeansClustering, and the return *)
EvaluateStep ==
    /\ kmPc = "labelled"
    /\ evalWcss' = calculateWCSS(normalizedData, centroids, clusters)
    /\ silhouetteScore' = calculateSilhouetteScore(normalizedData, clusters)
    /\ kmPc' = "returned"
    /\ UNCHANGED <<metrics, k, normalizedData, centroids, previousCentroids,
                   iterations, loopClusters, clusters, loopBodies>>
    /\ UNCHANGED <<clusterStats, rankedClusters, clusteredMetrics>>
    /\ UNCHANGED <<aggVars, elbowVars, runVars, extVars>>

Returned == kmPc = "returned"

-----------------------------------------------------------------------------
(* KMeansService.performEnhancedClustering: the sweep of findOptimalK, then *)
(* the final performKMeansClustering with the K it returned.                *)

\* if (metrics.length === 0) return this.getEmptyResult()
EnhancedEmpty ==
    /\ kmPc = "idle" /\ elbowPc = "idle"
    /\ Len(metrics) = 0
    /\ clusteredMetrics' = <<>>
    /\ rankedClusters' = <<>>
    /\ evalWcss' = 0
    /\ silhouetteScore' = [nan |-> FALSE, value |-> 0]
    /\ kmPc' = "returned"
    /\ UNCHANGED <<metrics, k, normalizedData, centroids, previousCentroids,
                   iterations, loopClusters, clusters, loopBodies>>
    /\ UNCHANGED clusterStats
    /\ UNCHANGED <<aggVars, elbowVars, runVars, extVars>>

\* const optimalK = await this.findOptimalK(metrics): the call
StartSweep ==
    /\ kmPc = "idle" /\ elbowPc = "idle"
    /\ Len(metrics) # 0
    /\ nMetrics' = Len(metrics)
    /\ kLoop' = minK
    /\ wcssValues' = <<>>
    /\ trials' = <<>>
    /\ elbowPc' = "sweep"
    /\ UNCHANGED optimalK
    /\ UNCHANGED <<kmVars, aggVars, runVars, resultVars, extVars>>

\* const result = await this.performKMeansClustering(metrics, optimalK,
\* dataStats): the call
StartFinal ==
    /\ kmPc = "idle" /\ elbowPc = "done"
    /\ k' = optimalK
    /\ kmPc' = "normalize"
    /\ UNCHANGED <<metrics, normalizedData, centroids, previousCentroids,
                   iterations, loopClusters, clusters, loopBodies>>
    /\ UNCHANGED <<aggVars, elbowVars, runVars, resultVars, extVars>>

InitEnhanced ==
    /\ IdleExt
    /\ \E n \in 0..MaxEnhN : \E first \in 1..Len(LabelRecords) :
          metrics = LabelMetrics(n, first)
    /\ k = 0 /\ normalizedData = <<>> /\ centroids = <<>> /\ previousCentroids = <<>>
    /\ iterations = 0 /\ loopClusters = <<>> /\ clusters = <<>> /\ loopBodies = 0
    /\ kmPc = "idle"
    /\ IdleAgg /\ IdleElbow /\ IdleRun /\ IdleResult

NextEnhanced ==
    \/ EnhancedEmpty \/ StartSweep \/ Trial \/ FindElbow \/ StartFinal
    \/ NextKM \/ LabelStep \/ EvaluateStep

\* Every step of the call is eventually taken
FairSpecEnhanced == InitEnhanced /\ [][NextEnhanced]_vars /\ WF_vars(NextEnhanced)

FourLabels == {"VIP", "Loyal", "Potential", "Pay Attention"}

TooFewForSweep == Len(metrics) >= 1 /\ Len(metrics) < 4

\* C11: with one to three records the sweep runs no trial, K is the default
\* 2, and the final clustering completes: the call returns a result in which
\* every record has a cluster_id and one of the segment labels.
C11_SmallPopulationCompletes ==
    /\ [](TooFewForSweep => trials = <<>> /\ (kmPc # "idle" => k = 2 /\ optimalK = 2))
    /\ (TooFewForSweep ~> Returned)
    /\ [](TooFewForSweep /\ Returned =>
            /\ Len(clusteredMetrics) = Len(metrics)
            /\ \A j \in 1..Len(clusteredMetrics) :
                  /\ clusteredMetrics[j].user_id = metrics[j].user_id
                  /\ clusteredMetrics[j].cluster_id \in {0, 1}
                  /\ clusteredMetrics[j].segment \in FourLabels)

\* A single record clustered with the default K
C11_SingleRecord ==
    /\ Returned /\ Len(metrics) = 1 /\ trials = <<>> /\ k = 2
    /\ clusteredMetrics[1].cluster_id = 0
    /\ clusteredMetrics[1].segment = "VIP"

-----------------------------------------------------------------------------
(* Step 6 on its own: the evaluation of any assignment of up to MaxSilN   *)
(* points, equal points included, to two clusters.                         *)

SilPoints == { <<0, 0, 0>>, <<Scale, 0, 0>>, <<Scale, Scale, Scale>> }

InitSil ==
    /\ IdleExt
    /\ normalizedData \in SeqsUpTo(SilPoints, MaxSilN)
    /\ k = 2
    /\ clusters \in [1..Len(normalizedData) -> 0..(k - 1)]
    /\ centroids \in [1..k -> {<<0, 0, 0>>, <<Scale, Scale, Scale>>}]
    /\ metrics = <<>> /\ previousCentroids = <<>> /\ loopClusters = <<>>
    /\ iterations = 0 /\ loopBodies = 0
    /\ kmPc = "labelled"
    /\ IdleAgg /\ IdleElbow /\ IdleRun /\ IdleResult

NextSil == EvaluateStep

SpecSil == InitSil /\ [][NextSil]_vars

\* C18: calculateSilhouetteScore returns a number in [-1, 1] and never NaN,
\* and 0 for at most one point.  It returns NaN when every point is in the
\* same cluster, and when a point and its nearest other cluster coincide
\* with a(i) = 0.
C18_SilhouetteWellDefined ==
    Returned =>
        /\ ~silhouetteScore.nan
        /\ silhouetteScore.value \in (0 - SilUnit)..SilUnit
        /\ (Len(normalizedData) <= 1 => silhouetteScore.value = 0)

PairwiseDistinct(s) == \A i, j \in 1..Len(s) : i # j => s[i] # s[j]

\* C19: n pairwise distinct normalized vectors clustered with K = n end with
\* every point in a cluster of its own and a WCSS of 0, whatever the seeding
\* drew.  A seeding draw of 0 selects the first point again, although it is
\* a centroid already, and two points can end in one cluster.
C19_EveryPointOwnCluster ==
    Done /\ k = Len(metrics) /\ PairwiseDistinct(normalizedData) =>
        /\ PairwiseDistinct(clusters)
        /\ calculateWCSS(normalizedData, centroids, clusters) = 0

-----------------------------------------------------------------------------
(* performKMeansClustering on the four customers of the worked example,   *)
(* K = 2.                                                                  *)

InitFour ==
    /\ IdleExt
    /\ metrics = FourCustomers
    /\ k = 2
    /\ normalizedData = <<>> /\ centroids = <<>> /\ previousCentroids = <<>>
    /\ iterations = 0 /\ loopClusters = <<>> /\ clusters = <<>> /\ loopBodies = 0
    /\ kmPc = "normalize"
    /\ IdleAgg /\ IdleElbow /\ IdleRun /\ IdleResult

NextFour == NextKM \/ LabelStep \/ EvaluateStep

SpecFour == InitFour /\ [][NextFour]_vars

\* C20: every run on the four customers with K = 2 puts customers 1 and 3
\* in one cluster and customers 2 and 4 in the other, and the cluster of 1
\* and 3 has the higher composite score and the label VIP.  After a
\* duplicate seed the second cluster can stay empty, and the four customers
\* end in one cluster.
C20_HighValuePairIsVIP ==
    Returned =>
        /\ clusters[1] = clusters[3] /\ clusters[2] = clusters[4]
        /\ clusters[1] # clusters[2]
        /\ clusteredMetrics[1].segment = "VIP" /\ clusteredMetrics[3].segment = "VIP"
        /\ clusteredMetrics[2].segment # "VIP" /\ clusteredMetrics[4].segment # "VIP"
        /\ rankedClusters[1].cluster_id = clusters[1]
        /\ ScoreGreater(rankedClusters[1].composite_score,
                        rankedClusters[2].composite_score)

\* C12: the ranking returns the K clusters with ranks 1..K, each once, the
\* composite scores never increase with the rank, and the cluster of rank 1
\* has the greatest composite score of all K clusters.
C12_RanksOrderedByScore ==
    Labelled =>
        /\ Len(rankedClusters) = k
        /\ { rankedClusters[x].rank : x \in 1..Len(rankedClusters) } = 1..k
        /\ { rankedClusters[x].cluster_id : x \in 1..Len(rankedClusters) } = 0..(k - 1)
        /\ \A x \in 1..Len(rankedClusters) :
              ScoreEq(rankedClusters[x].composite_score,
                      compositeScore(clusterStats[rankedClusters[x].cluster_id + 1]))
        /\ \A x, y \in 1..Len(rankedClusters) :
              rankedClusters[x].rank < rankedClusters[y].rank =>
                  ~ScoreGreater(rankedClusters[y].composite_score,
                                rankedClusters[x].composite_score)
        /\ \A x \in 1..Len(rankedClusters) : \A c \in 1..Len(clusterStats) :
              rankedClusters[x].rank = 1 =>
                  ~ScoreGreater(compositeScore(clusterStats[c]),
                                rankedClusters[x].composite_score)

\* The last of three clusters is ranked first, strictly ahead of the second
C12_LastClusterRankedFirst ==
    /\ Labelled /\ k = 3
    /\ \E x, y \in 1..Len(rankedClusters) :
          /\ rankedClusters[x].rank = 1 /\ rankedClusters[x].cluster_id = 2
          /\ rankedClusters[y].rank = 2
          /\ ScoreGreater(rankedClusters[x].composite_score,
                          rankedClusters[y].composite_score)

\* C13: rank 1, 2, 3, 4 get VIP, Loyal, Potential, Pay Attention, every
\* later rank gets Pay Attention; every customer's segment is one of the
\* four labels; for K <= 4 no two clusters share a label.
C13_LabelByRank ==
    Labelled =>
        /\ \A x \in 1..Len(rankedClusters) :
              rankedClusters[x].segment_label =
                  (CASE rankedClusters[x].rank = 1 -> "VIP"
                     [] rankedClusters[x].rank = 2 -> "Loyal"
                     [] rankedClusters[x].rank = 3 -> "Potential"
                     [] OTHER -> "Pay Attention")
        /\ \A j \in 1..Len(clusteredMetrics) : clusteredMetrics[j].segment \in FourLabels
        /\ k <= 4 =>
              \A x, y \in 1..Len(rankedClusters) :
                  x # y => rankedClusters[x].segment_label # rankedClusters[y].segment_label

\* Five clusters: the clusters of rank 4 and rank 5 are both Pay Attention,
\* and a customer belongs to the one of rank 4
C13_FifthRankClamped ==
    /\ Labelled /\ k = 5
    /\ \E x, y \in 1..Len(rankedClusters) :
          /\ rankedClusters[x].rank = 4 /\ rankedClusters[x].segment_label = "Pay Attention"
          /\ rankedClusters[y].rank = 5 /\ rankedClusters[y].segment_label = "Pay Attention"
          /\ \E j \in 1..Len(clusteredMetrics) :
                /\ clusteredMetrics[j].cluster_id = rankedClusters[x].cluster_id
                /\ clusteredMetrics[j].segment = "Pay Attention"

\* The per-customer records of the result that carry cluster id c
MembersOf(c) == { j \in 1..Len(clusteredMetrics) : clusteredMetrics[j].cluster_id = c }

RECURSIVE SumOver(_, _)
SumOver(f, S) ==
    IF S = {} THEN 0
    ELSE LET j == CHOOSE x \in S : TRUE IN f[j] + SumOver(f, S \ {j})

\* C14: each customer's segment is the segment_label of the one center with
\* the customer's cluster_id, and the means of recency, frequency and
\* monetary recomputed from the per-customer records of a cluster are the
\* center's recency_center, frequency_center and monetary_center.
C14_CentersMatchAssignments ==
    Labelled =>
        /\ Len(clusteredMetrics) = Len(metrics)
        /\ \A j \in 1..Len(clusteredMetrics) :
              /\ Cardinality({ x \in 1..Len(rankedClusters) :
                     rankedClusters[x].cluster_id = clusteredMetrics[j].cluster_id }) = 1
              /\ \A x \in 1..Len(rankedClusters) :
                     rankedClusters[x].cluster_id = clusteredMetrics[j].cluster_id =>
                         clusteredMetrics[j].segment = rankedClusters[x].segment_label
        /\ \A x \in 1..Len(rankedClusters) :
              LET members == MembersOf(rankedClusters[x].cluster_id)
                  n == Cardinality(members)
              IN  n > 0 =>
                    /\ FracEq(rankedClusters[x].recency_center,
                          Frac(SumOver([j \in members |-> clusteredMetrics[j].recency], members), n))
                    /\ FracEq(rankedClusters[x].frequency_center,
                          Frac(SumOver([j \in members |-> clusteredMetrics[j].frequency], members), n))
                    /\ FracEq(rankedClusters[x].monetary_center,
                          Frac(SumOver([j \in members |-> clusteredMetrics[j].monetary], members), n))

\* Two non-empty clusters, one of them with two customers of different
\* recency, and an empty third
C14_MixedCluster ==
    /\ Labelled /\ k = 3
    /\ \E a, b \in 1..Len(clusteredMetrics) :
          /\ a # b
          /\ clusteredMetrics[a].cluster_id = clusteredMetrics[b].cluster_id
          /\ clusteredMetrics[a].recency # clusteredMetrics[b].recency
    /\ \E c \in 0..2 : MembersOf(c) = {}
    /\ Cardinality({ c \in 0..2 : MembersOf(c) # {} }) = 2

-----------------------------------------------------------------------------
(* The feature normalizer on its own: normalizeData over every population  *)
(* of up to MaxN records with small raw values                             *)

FrequencySamples == {1, 2}
MonetarySamples == {0, 1}

NormRecords ==
    { <<r, f, m>> : r \in 0..MaxVal, f \in FrequencySamples, m \in MonetarySamples }

InitNorm ==
    /\ IdleExt
    /\ \E n \in 1..MaxN : metrics \in MetricsOver(NormRecords, n)
    /\ k = 1
    /\ normalizedData = <<>> /\ centroids = <<>> /\ previousCentroids = <<>>
    /\ iterations = 0 /\ loopClusters = <<>> /\ clusters = <<>> /\ loopBodies = 0
    /\ kmPc = "normalize"
    /\ IdleAgg /\ IdleElbow /\ IdleRun /\ IdleResult

NextNorm == NormalizeStep

SpecNorm == InitNorm /\ [][NextNorm]_vars

-----------------------------------------------------------------------------
(* Claims about the clustering engine and the normalizer *)

\* C1: a call of runKMeansAlgorithm on a non-empty population with k >= 1
\* terminates; when it has returned, the main loop has run at least once and
\* at most maxIterations (100) times, whatever the random seeding and
\* reseeding gave, and the reported iterations is the number of loop bodies
\* executed.
C1_TerminatesWithinCap ==
    /\ <>Done
    /\ [](Done => /\ iterations >= 1
                  /\ iterations <= maxIterations
                  /\ iterations = loopBodies)

\* A run that stopped only because of the iteration cap
C1_CapReached == Done /\ iterations = maxIterations /\ loopBodies = maxIterations

\* C2: when the clustering has returned for n vectors and k clusters, the
\* assignment has exactly n entries and each is a cluster index in 0..k-1.
C2_AssignmentComplete ==
    Done => /\ Len(clusters) = Len(metrics)
            /\ \A i \in 1..Len(clusters) : clusters[i] \in 0..(k - 1)

\* A returned assignment of MaxN customers that uses two clusters
C2_TwoClustersUsed ==
    /\ Done /\ Len(clusters) = MaxN /\ k = 2
    /\ \E i, j \in 1..Len(clusters) : clusters[i] = 0 /\ clusters[j] = 1
IdenticalRecency ==
    \A i, j \in 1..Len(metrics) : metrics[i].recency = metrics[j].recency

WithRecency(ms, c) == [i \in 1..Len(ms) |-> [ms[i] EXCEPT !.recency = c]]

SameOtherAxes(a, b) == a.frequency = b.frequency /\ a.monetary = b.monetary

\* C7: when every record has the same recency, the recency axis normalizes
\* to 0 for every record (whatever the common value is, the normalized
\* vectors are the same), the clustering of those vectors still terminates,
\* and the returned assignment is complete and a function of the remaining
\* two axes: records equal in frequency and monetary share a cluster.
C7_DegenerateAxis ==
    /\ [](IdenticalRecency /\ kmPc # "normalize" =>
            /\ \A i \in 1..Len(normalizedData) : normalizedData[i][1] = 0
            /\ \A c \in 0..MaxVal : normalizedData = normalizeData(WithRecency(metrics, c)))
    /\ (IdenticalRecency ~> Done)
    /\ [](IdenticalRecency /\ Done =>
            /\ Len(clusters) = Len(metrics)
            /\ \A i \in 1..Len(clusters) : clusters[i] \in 0..(k - 1)
            /\ \A i, j \in 1..Len(clusters) :
                  SameOtherAxes(metrics[i], metrics[j]) => clusters[i] = clusters[j])

\* Two records of identical recency that differ on
\* the other axes end in different clusters
C7_PartitionByOtherAxes ==
    /\ IdenticalRecency /\ Done /\ k = 2 /\ Len(metrics) = 2
    /\ ~SameOtherAxes(metrics[1], metrics[2])
    /\ clusters[1] # clusters[2]
    /\ normalizedData[1][1] = 0 /\ normalizedData[2][1] = 0

AxisOf(m, d) == IF d = 1 THEN m.recency ELSE IF d = 2 THEN m.frequency ELSE m.monetary

AxisValues(ms, d) == [i \in 1..Len(ms) |-> AxisOf(ms[i], d)]

Normalized == kmPc # "normalize"

\* C6 as stated: every normalized value lies in [0,1], a record holding the
\* axis minimum maps to 0 and a record holding the axis maximum maps to 1.
C6_MinMaxExact ==
    Normalized =>
        \A i \in 1..Len(metrics) : \A d \in Dims :
            /\ normalizedData[i][d] >= 0 /\ normalizedData[i][d] <= Scale
            /\ AxisOf(metrics[i], d) = MinSeq(AxisValues(metrics, d)) => normalizedData[i][d] = 0
            /\ AxisOf(metrics[i], d) = MaxSeq(AxisValues(metrics, d)) => normalizedData[i][d] = Scale

\* C6 amended: every normalized value lies in [0,1] and a record holding the
\* axis minimum maps to 0; a record holding the axis maximum maps to 1 when
\* the axis has max > min, and to 0 when max = min.
C6_MinMaxExactUnlessDegenerate ==
    Normalized =>
        \A i \in 1..Len(metrics) : \A d \in Dims :
            LET lo == MinSeq(AxisValues(metrics, d))
                hi == MaxSeq(AxisValues(metrics, d))
            IN  /\ normalizedData[i][d] >= 0 /\ normalizedData[i][d] <= Scale
                /\ AxisOf(metrics[i], d) = lo => normalizedData[i][d] = 0
                /\ AxisOf(metrics[i], d) = hi /\ hi > lo => normalizedData[i][d] = Scale
                /\ hi = lo => normalizedData[i][d] = 0

\* An axis whose minimum maps to 0, whose maximum maps to 1 and
\* with a value strictly in between, next to a degenerate axis
C6_FullRangeAxis ==
    /\ Normalized
    /\ \E a, b, c \in 1..Len(metrics) :
          /\ metrics[a].recency < metrics[c].recency /\ metrics[c].recency < metrics[b].recency
          /\ normalizedData[a][1] = 0 /\ normalizedData[b][1] = Scale
          /\ normalizedData[c][1] > 0 /\ normalizedData[c][1] < Scale
    /\ \A i \in 1..Len(metrics) : metrics[i].monetary = metrics[1].monetary

-----------------------------------------------------------------------------
(* Further properties of the clustering engine *)

\* cl gives every vector a centroid at minimum distance, the one of lowest
\* index among those at that distance
NearestLowestIndex(data, cents, cl) ==
    \A i \in 1..Len(data) : \A c \in 1..Len(cents) :
        LET own   == euclideanDistance2(data[i], cents[cl[i] + 1])
            other == euclideanDistance2(data[i], cents[c])
        IN  /\ own <= other
            /\ (own = other => cl[i] + 1 <= c)

\* C22: the assignment step gives each vector a centroid at minimum
\* Euclidean distance, and among several centroids at that distance the one
\* with the lowest cluster index.
C22_NearestCentroidLowestIndex ==
    /\ (kmPc = "update" => NearestLowestIndex(normalizedData, centroids, loopClusters))
    /\ (Done => NearestLowestIndex(normalizedData, centroids, clusters))

\* A vector at the same distance from two different centroids, assigned to
\* the first
C22_TieBetweenTwoCentroids ==
    /\ kmPc = "update" /\ k = 2 /\ centroids[1] # centroids[2]
    /\ \E i \in 1..Len(normalizedData) :
          /\ euclideanDistance2(normalizedData[i], centroids[1])
                = euclideanDistance2(normalizedData[i], centroids[2])
          /\ loopClusters[i] = 0

\* c is the coordinate-wise mean (rounded down to the unit) of the vectors
\* of data with index in members
IsMeanOf(c, data, members) ==
    \A d \in Dims :
        LET total == SumSeq([j \in 1..Len(data) |-> IF j \in members THEN data[j][d] ELSE 0])
        IN  /\ c[d] * Cardinality(members) <= total
            /\ total < (c[d] + 1) * Cardinality(members)

InUnitCube(c) == \A d \in Dims : c[d] >= 0 /\ c[d] <= Scale

\* C23: the centroid list has exactly k entries from the end of the seeding
\* on, also when k exceeds the number of distinct vectors; the seeds are
\* copies of input vectors, and an update step gives every cluster index the
\* mean of its vectors or, when it has none, a point of the unit cube.
C23_AlwaysKCentroids ==
    /\ [](kmPc \in {"loop", "update", "done"} => Len(centroids) = k)
    /\ [](kmPc \in {"seed", "loop"} /\ iterations = 0 /\ previousCentroids = <<>> =>
            /\ Len(centroids) <= k
            /\ \A c \in 1..Len(centroids) :
                  \E j \in 1..Len(normalizedData) : centroids[c] = normalizedData[j])
    /\ [][kmPc = "update" /\ kmPc' = "loop" =>
            /\ Len(centroids') = k
            /\ \A c \in 1..k :
                  LET members == { j \in 1..Len(loopClusters) : loopClusters[j] = c - 1 }
                  IN  IF members = {} THEN InUnitCube(centroids'[c])
                      ELSE IsMeanOf(centroids'[c], normalizedData, members)]_vars

\* One record and two clusters: the second centroid stands after an update
\* although its cluster is empty
C23_MoreClustersThanVectors ==
    /\ kmPc = "loop" /\ iterations >= 1 /\ k = 2 /\ Len(metrics) = 1
    /\ Len(centroids) = 2
    /\ centroids[1] = normalizedData[1] /\ centroids[2] # normalizedData[1]

-----------------------------------------------------------------------------
(* The ranking on clusters that differ in recency only: records of equal   *)
(* frequency and monetary value, in any assignment to two clusters.         *)

FreshRecords == { <<0, 1, 1>>, <<1, 1, 1>>, <<2, 1, 1>> }

InitFresh ==
    /\ IdleExt
    /\ \E n \in 1..MaxFreshN : metrics \in MetricsOver(FreshRecords, n)
    /\ k = 2
    /\ clusters \in [1..Len(metrics) -> 0..(k - 1)]
    /\ normalizedData = normalizeData(metrics)
    /\ centroids = <<>> /\ previousCentroids = <<>> /\ loopClusters = <<>>
    /\ iterations = 0 /\ loopBodies = 0
    /\ kmPc = "done"
    /\ IdleAgg /\ IdleElbow /\ IdleRun /\ IdleResult

NextFresh == LabelStep

SpecFresh == InitFresh /\ [][NextFresh]_vars

\* C24: of two clusters with equal average frequency and equal average
\* monetary value, the one with the smaller average recency (0 included)
\* never has the lower composite score.  An average recency of 0 scores 1,
\* an average recency between 0 and 1 scores more than 1.
C24_FresherNeverLower ==
    Labelled =>
        \A x, y \in 1..Len(rankedClusters) :
            /\ FracEq(rankedClusters[x].frequency_center, rankedClusters[y].frequency_center)
            /\ FracEq(rankedClusters[x].monetary_center, rankedClusters[y].monetary_center)
            /\ FracLess(rankedClusters[x].recency_center, rankedClusters[y].recency_center)
            => ~ScoreGreater(rankedClusters[y].composite_score,
                             rankedClusters[x].composite_score)

\* The composite score the ranking gave to the cluster of id c
ScoreOfCluster(c) ==
    rankedClusters[CHOOSE x \in 1..Len(rankedClusters) :
                       rankedClusters[x].cluster_id = c].composite_score

\* C28: a cluster that received no customer scores strictly lower than
\* every non-empty cluster, so the cluster of rank 1 is never empty and at
\* least one customer is labelled VIP.
C28_EmptyClusterScoresLowest ==
    Labelled =>
        /\ \A c, e \in 1..k :
              clusterStats[c].size > 0 /\ clusterStats[e].size = 0
              => ScoreGreater(ScoreOfCluster(c - 1), ScoreOfCluster(e - 1))
        /\ \E j \in 1..Len(clusters) : clusters[j] = rankedClusters[1].cluster_id
        /\ \E j \in 1..Len(clusteredMetrics) : clusteredMetrics[j].segment = "VIP"

\* Three clusters of which the first is empty and ranked last
C28_EmptyFirstClusterRankedLast ==
    /\ Labelled /\ k = 3 /\ clusterStats[1].size = 0
    /\ clusterStats[2].size > 0 /\ clusterStats[3].size > 0
    /\ rankedClusters[3].cluster_id = 0
    /\ \E j \in 1..Len(clusteredMetrics) : clusteredMetrics[j].segment = "VIP"

-----------------------------------------------------------------------------
(* Further properties of the K sweep *)

\* C29: the K returned by findOptimalK is 2 or a candidate in 3..(maxK - 1),
\* maxK = min(8, floor(n / 2)): the largest candidate is never returned when
\* it is greater than 2, 8 is never returned, and for fewer than 8 records
\* the result is 2 whatever the WCSS values are.
C29_LargestCandidateNeverChosen ==
    ElbowDone =>
        LET half == nMetrics \div 2
            largest == IF half < 8 THEN half ELSE 8
        IN  /\ optimalK = 2 \/ optimalK \in 3..(largest - 1)
            /\ (largest > 2 => optimalK # largest)
            /\ optimalK # 8
            /\ (nMetrics < 8 => optimalK = 2)

\* Candidates up to 8, and the last interior one returned
C29_LastInteriorChosen ==
    ElbowDone /\ Len(trials) = 7 /\ trials[7] = 8 /\ optimalK = 7

-----------------------------------------------------------------------------
(* The shape of the result of performKMeansClustering *)

\* C30: the result for n >= 1 records and k clusters has exactly k centers
\* whose cluster_ids are the k values 0..k-1, a cluster without customer
\* listed with averages 0; it has n per-customer records in input order with
\* user_id, recency, frequency and monetary unchanged; the numbers of
\* customers per cluster_id sum to n; and the input list is not modified.
C30_ResultShape ==
    /\ [](Labelled =>
            /\ Len(rankedClusters) = k
            /\ { rankedClusters[x].cluster_id : x \in 1..Len(rankedClusters) } = 0..(k - 1)
            /\ \A x \in 1..Len(rankedClusters) :
                  (\A j \in 1..Len(clusteredMetrics) :
                       clusteredMetrics[j].cluster_id # rankedClusters[x].cluster_id)
                  => /\ rankedClusters[x].recency_center.num = 0
                     /\ rankedClusters[x].frequency_center.num = 0
                     /\ rankedClusters[x].monetary_center.num = 0
            /\ Len(clusteredMetrics) = Len(metrics)
            /\ \A j \in 1..Len(metrics) :
                  /\ clusteredMetrics[j].user_id = metrics[j].user_id
                  /\ clusteredMetrics[j].recency = metrics[j].recency
                  /\ clusteredMetrics[j].frequency = metrics[j].frequency
                  /\ clusteredMetrics[j].monetary = metrics[j].monetary
            /\ SumSeq([c \in 1..k |->
                   Cardinality({ j \in 1..Len(clusteredMetrics) :
                                    clusteredMetrics[j].cluster_id = c - 1 })])
                  = Len(metrics))
    /\ [][metrics' = metrics]_vars

\* Three records that all went to the second of two clusters; the first is
\* listed with averages 0
C30_EmptyClusterListed ==
    /\ Labelled /\ k = 2 /\ Len(metrics) = 3
    /\ \A j \in 1..3 : clusteredMetrics[j].cluster_id = 1
    /\ rankedClusters[2].cluster_id = 0
    /\ rankedClusters[2].frequency_center.num = 0

(***************************************************************************)
(* The weekly schedule: RfmService.shouldRunSegmentation and               *)
(* SegmentationSchedulerService.  Time is counted in ticks, TicksPerDay to *)
(* the day, and the days are cut at 2:00 AM, so that the daily timer is    *)
(* due at the multiples of TicksPerDay.  A run is one step here: it either *)
(* fails and stores nothing, or stores an analysis result whose created_at *)
(* is the current time, next to the earlier results when the clearing      *)
(* failed (clearOldAnalysisData swallows the error).                       *)
(***************************************************************************)
MaxManualRuns == 1
MaxReadFailures == 1
IntervalDays == 7

\* the horizon: one day more than the interval
MaxDays == IntervalDays + 1

MaxClock == MaxDays * TicksPerDay

SetMax(S) == CHOOSE x \in S : \A y \in S : y <= x

\* Faulty variant: the day difference is rounded up.
daysDiffRoundedUp(lastDate, currentDate) ==
    (currentDate - lastDate + TicksPerDay - 1) \div TicksPerDay

\* Math.floor((currentDate.getTime() - lastDate.getTime()) / (1000*60*60*24))
daysDiff(lastDate, currentDate) == (currentDate - lastDate) \div TicksPerDay

\* snapshot.empty -> true; read failure (catch) -> true; else daysDiff >= 7
shouldRunSegmentation(results, currentDate, failed) ==
    IF failed THEN TRUE
    ELSE IF results = {} THEN TRUE
    ELSE daysDiff(SetMax(results), currentDate) >= IntervalDays

\* tomorrow's 2:00 AM when today's is not in the future
NextTwoAM(t) == ((t \div TicksPerDay) + 1) * TicksPerDay

TimerDue == nextFire = clock /\ (timeoutPending \/ intervalId = "set")

\* what one runRFMAnalysis leaves in the analysis results
AfterRun(ok, cleared) ==
    IF ~ok THEN analysisResults
    ELSE IF cleared THEN {clock}
    ELSE analysisResults \cup {clock}

SchedStart ==
    /\ ~started
    /\ started' = TRUE
    /\ timeoutPending' = TRUE
    /\ nextFire' = NextTwoAM(clock)
    /\ UNCHANGED <<clock, analysisResults, intervalId, stopped, schedPc, shouldRun,
                   readFailed, readFailures, manualRuns>>
    /\ UNCHANGED <<kmVars, aggVars, elbowVars, runVars, resultVars, storeVars>>

\* the callback of setTimeout: the first check, then setInterval
SchedTimeoutFires ==
    /\ timeoutPending /\ nextFire = clock /\ schedPc = "idle"
    /\ timeoutPending' = FALSE
    /\ intervalId' = "set"
    /\ nextFire' = clock + TicksPerDay
    /\ schedPc' = "shouldRun"
    /\ UNCHANGED <<clock, analysisResults, started, stopped, shouldRun, readFailed,
                   readFailures, manualRuns>>
    /\ UNCHANGED <<kmVars, aggVars, elbowVars, runVars, resultVars, storeVars>>

\* the callback of setInterval, every 24 hours
SchedIntervalFires ==
    /\ intervalId = "set" /\ ~timeoutPending /\ nextFire = clock /\ schedPc = "idle"
    /\ nextFire' = clock + TicksPerDay
    /\ schedPc' = "shouldRun"
    /\ UNCHANGED <<clock, analysisResults, started, timeoutPending, intervalId, stopped,
                   shouldRun, readFailed, readFailures, manualRuns>>
    /\ UNCHANGED <<kmVars, aggVars, elbowVars, runVars, resultVars, storeVars>>

\* checkAndRunSegmentation: const shouldRun = await shouldRunSegmentation()
SchedShouldRun ==
    /\ schedPc = "shouldRun"
    /\ \E failed \in { f \in BOOLEAN : f => readFailures < MaxReadFailures } :
        /\ readFailed' = failed
        /\ readFailures' = readFailures + (IF failed THEN 1 ELSE 0)
        /\ shouldRun' = IF shouldRunSegmentation(analysisResults, clock, failed)
                        THEN "true" ELSE "false"
    /\ schedPc' = IF shouldRun' = "true" THEN "run" ELSE "idle"
    /\ UNCHANGED <<clock, analysisResults, started, timeoutPending, intervalId, nextFire,
                   stopped, manualRuns>>
    /\ UNCHANGED <<kmVars, aggVars, elbowVars, runVars, resultVars, storeVars>>

\* checkAndRunSegmentation: if (shouldRun) await runRFMAnalysis(), errors logged
SchedRun ==
    /\ schedPc = "run"
    /\ \E ok \in BOOLEAN, cleared \in BOOLEAN :
        analysisResults' = AfterRun(ok, cleared)
    /\ schedPc' = "idle"
    /\ UNCHANGED <<clock, started, timeoutPending, intervalId, nextFire, stopped,
                   shouldRun, readFailed, readFailures, manualRuns>>
    /\ UNCHANGED <<kmVars, aggVars, elbowVars, runVars, resultVars, storeVars>>

\* stop(): if (this.intervalId) { clearInterval(this.intervalId); ... = null }
SchedStop ==
    /\ started /\ ~stopped
    /\ stopped' = TRUE
    /\ intervalId' = "null"
    /\ nextFire' = IF intervalId = "set" THEN -1 ELSE nextFire
    /\ UNCHANGED <<clock, analysisResults, started, timeoutPending, schedPc, shouldRun,
                   readFailed, readFailures, manualRuns>>
    /\ UNCHANGED <<kmVars, aggVars, elbowVars, runVars, resultVars, storeVars>>

\* runManually(), and the component's runAnalysis()
ManualRun ==
    /\ manualRuns < MaxManualRuns
    /\ \E ok \in BOOLEAN, cleared \in BOOLEAN :
        analysisResults' = AfterRun(ok, cleared)
    /\ manualRuns' = manualRuns + 1
    /\ UNCHANGED <<clock, started, timeoutPending, intervalId, nextFire, stopped, schedPc,
                   shouldRun, readFailed, readFailures>>
    /\ UNCHANGED <<kmVars, aggVars, elbowVars, runVars, resultVars, storeVars>>

\* time passes while a timer of the scheduler is pending or a run is in
\* flight (there is nothing to observe otherwise); the read of
\* shouldRunSegmentation takes less than a tick, a run may take longer; a
\* timer that is due fires first
Tick ==
    /\ timeoutPending \/ intervalId = "set" \/ schedPc = "run"
    /\ schedPc # "shouldRun"
    /\ clock < MaxClock
    /\ ~TimerDue
    /\ clock' = clock + 1
    /\ UNCHANGED <<analysisResults, started, timeoutPending, intervalId, nextFire, stopped,
                   schedPc, shouldRun, readFailed, 
                   readFailures, manualRuns>>
    /\ UNCHANGED <<kmVars, aggVars, elbowVars, runVars, resultVars, storeVars>>

InitSched ==
    /\ IdleKM /\ IdleAgg /\ IdleElbow /\ IdleRun /\ IdleResult /\ IdleStore
    /\ clock \in 0..(TicksPerDay - 1)
    /\ analysisResults = {} /\ started = FALSE
    /\ timeoutPending = FALSE /\ intervalId = "null" /\ nextFire = -1
    /\ stopped = FALSE /\ schedPc = "idle" /\ shouldRun = "none"
    /\ readFailed = FALSE /\ readFailures = 0 /\ manualRuns = 0

NextSched ==
    \/ SchedStart
    \/ SchedTimeoutFires
    \/ SchedIntervalFires
    \/ SchedShouldRun
    \/ SchedRun
    \/ SchedStop
    \/ ManualRun
    \/ Tick

SpecSched == InitSched /\ [][NextSched]_vars

\* the step in which a call of shouldRunSegmentation returns
ShouldRunReturns == schedPc = "shouldRun" /\ schedPc' # "shouldRun"

\* the steps in which the scheduler starts a check, and runs the analysis
CheckStarts == schedPc = "idle" /\ schedPc' = "shouldRun"
RunStarts   == schedPc = "run" /\ schedPc' = "idle"

\* C21: every call of shouldRunSegmentation returns true when no analysis
\* result is stored or when the read fails, and otherwise true exactly when
\* the whole days between the current time and the created_at of the most
\* recent stored result are at least 7; so with a result stored less than 7
\* full days ago (right after a successful run) a successful read gives false.
C21_WeeklyDecision ==
    [][ShouldRunReturns =>
        /\ (readFailed' \/ analysisResults = {}) => shouldRun' = "true"
        /\ (~readFailed' /\ analysisResults # {}) =>
            /\ shouldRun' = "true" <=>
                \A t \in analysisResults : clock - t >= IntervalDays * TicksPerDay
            /\ (\E t \in analysisResults : clock - t < IntervalDays * TicksPerDay)
                => shouldRun' = "false"]_vars

\* the check exactly seven days after the most recent stored result asks
\* for a run
C21_SeventhDayReached ==
    /\ shouldRun = "true" /\ ~readFailed /\ schedPc = "run"
    /\ analysisResults # {}
    /\ \E t \in analysisResults :
        /\ \A u \in analysisResults : u <= t
        /\ clock - t = IntervalDays * TicksPerDay

\* C26: once stop() has been called, the scheduler starts no further check
\* and no further analysis run.
C26_NothingStartedAfterStop ==
    [][stopped => ~CheckStarts /\ ~RunStarts]_vars

(***************************************************************************)
(* The store under one or two runs of RfmService.runRFMAnalysis.  A        *)
(* document is tagged with the run that wrote it (addDoc gives every       *)
(* document a fresh id); run 0 is an earlier, completed run.  Every await   *)
(* of a run is a step, so the steps of two runs interleave as the event    *)
(* loop allows.  clearOldAnalysisData starts the three clearCollection     *)
(* calls at once and waits with Promise.all, which rejects as soon as one  *)
(* of them rejects; the catch only logs.  SpecStore follows one run with   *)
(* reads that may fail, SpecOverlap two runs whose reads all succeed.      *)
(***************************************************************************)
MaxStoreCustomers == 1

StoreDocs(p, c) ==
    IF c = "segmentation" THEN { [run |-> p, id |-> u] : u \in 1..MaxStoreCustomers }
    ELSE IF c = "centers" THEN { [run |-> p, id |-> i] : i \in 0..(minK - 1) }
    ELSE { [run |-> p, id |-> 0] }

ClearEnded(p) == \A c \in CollectionNames : clearing[p][c].status \in {"finished", "failed"}

\* the calls made up to the first await: both fetches are issued (Promise.all);
\* of the two runs, run 1 is the one that starts first
RunStart(p) ==
    /\ procPc[p] = "idle"
    /\ \A q \in Runs : q < p => procPc[q] # "idle"
    /\ procPc' = [procPc EXCEPT ![p] = "fetch"]
    /\ fetchCount' = [fetchCount EXCEPT ![p] = [customers |-> @.customers + 1,
                                                orders |-> @.orders + 1]]
    /\ UNCHANGED <<collections, clearing>>
    /\ UNCHANGED <<kmVars, aggVars, elbowVars, runVars, resultVars, schedVars>>

\* calculateRFMMetrics returns; rawMetrics.length === 0 -> throw
FetchDone(p) ==
    /\ procPc[p] = "fetch"
    /\ \E empty \in BOOLEAN :
        procPc' = [procPc EXCEPT ![p] = IF empty THEN "failed" ELSE "cluster"]
    /\ UNCHANGED <<collections, clearing, fetchCount>>
    /\ UNCHANGED <<kmVars, aggVars, elbowVars, runVars, resultVars, schedVars>>

\* performEnhancedClustering returns; saveCompleteAnalysis calls
\* clearOldAnalysisData, which issues the three getDocs
ClusterDone(p) ==
    /\ procPc[p] = "cluster"
    /\ procPc' = [procPc EXCEPT ![p] = "clearing"]
    /\ clearing' = [clearing EXCEPT ![p] =
                      [c \in CollectionNames |-> [status |-> "reading", docs |-> {}]]]
    /\ UNCHANGED <<collections, fetchCount>>
    /\ UNCHANGED <<kmVars, aggVars, elbowVars, runVars, resultVars, schedVars>>

\* clearCollection: const snapshot = await getDocs(q), then the deleteDoc
\* calls are issued (none for an empty snapshot); ok: the read succeeded
ClearRead(p, c, ok) ==
    /\ clearing[p][c].status = "reading"
    /\ clearing' = [clearing EXCEPT ![p][c] =
                      IF ~ok THEN [status |-> "failed", docs |-> {}]
                      ELSE IF collections[c] = {} THEN [status |-> "finished", docs |-> {}]
                      ELSE [status |-> "deleting", docs |-> collections[c]]]
    /\ UNCHANGED <<procPc, collections, fetchCount>>
    /\ UNCHANGED <<kmVars, aggVars, elbowVars, runVars, resultVars, schedVars>>

\* clearCollection: await Promise.all(deletePromises); a failing delete has
\* the effect of a failing read at this later time and is not modelled apart
ClearDelete(p, c) ==
    /\ clearing[p][c].status = "deleting"
    /\ collections' = [collections EXCEPT ![c] = @ \ clearing[p][c].docs]
    /\ clearing' = [clearing EXCEPT ![p][c] = [status |-> "finished", docs |-> {}]]
    /\ UNCHANGED <<procPc, fetchCount>>
    /\ UNCHANGED <<kmVars, aggVars, elbowVars, runVars, resultVars, schedVars>>

\* clearOldAnalysisData returns: all three resolved, or one rejected (logged)
ClearReturn(p) ==
    /\ procPc[p] = "clearing"
    /\ \/ \A c \in CollectionNames : clearing[p][c].status = "finished"
       \/ \E c \in CollectionNames : clearing[p][c].status = "failed"
    /\ procPc' = [procPc EXCEPT ![p] = "saveSegmentations"]
    /\ UNCHANGED <<collections, clearing, fetchCount>>
    /\ UNCHANGED <<kmVars, aggVars, elbowVars, runVars, resultVars, schedVars>>

\* one of the three save steps: the addDoc calls of the batch, awaited with
\* Promise.all; when one of them fails the run fails
SaveStep(p, from, c, to) ==
    /\ procPc[p] = from
    /\ \E written \in SUBSET StoreDocs(p, c) :
        /\ collections' = [collections EXCEPT ![c] = @ \cup written]
        /\ procPc' = [procPc EXCEPT ![p] = IF written = StoreDocs(p, c) THEN to ELSE "failed"]
    /\ UNCHANGED <<clearing, fetchCount>>
    /\ UNCHANGED <<kmVars, aggVars, elbowVars, runVars, resultVars, schedVars>>

\* await this.saveCustomerSegmentations(result.clusteredMetrics, currentTime)
SaveSegmentations(p) ==
    /\ procPc[p] = "saveSegmentations"
    /\ SaveStep(p, "saveSegmentations", "segmentation", "saveCenters")

\* await this.saveClusterCenters(result.centers, currentTime)
SaveCenters(p) ==
    /\ procPc[p] = "saveCenters"
    /\ SaveStep(p, "saveCenters", "centers", "saveMetadata")

\* await this.saveAnalysisMetadata(result, currentTime)
SaveMetadata(p) ==
    /\ procPc[p] = "saveMetadata"
    /\ SaveStep(p, "saveMetadata", "results", "done")

InitStore ==
    /\ IdleKM /\ IdleAgg /\ IdleElbow /\ IdleRun /\ IdleResult /\ IdleSched
    /\ procPc = [p \in Runs |-> "idle"]
    /\ collections \in { [c \in CollectionNames |-> {}],
                        [c \in CollectionNames |-> StoreDocs(0, c)] }
    /\ clearing = [p \in Runs |-> [c \in CollectionNames |-> [status |-> "none", docs |-> {}]]]
    /\ fetchCount = [p \in Runs |-> [customers |-> 0, orders |-> 0]]

RunSteps(p) ==
    \/ RunStart(p)
    \/ FetchDone(p)
    \/ ClusterDone(p)
    \/ \E c \in CollectionNames : ClearDelete(p, c)
    \/ ClearReturn(p)
    \/ SaveSegmentations(p)
    \/ SaveCenters(p)
    \/ SaveMetadata(p)

NextStore ==
    \/ RunSteps(1)
    \/ \E c \in CollectionNames, ok \in BOOLEAN : ClearRead(1, c, ok)

SpecStore == InitStore /\ [][NextStore]_vars

NextOverlap ==
    \E p \in Runs :
        \/ RunSteps(p)
        \/ \E c \in CollectionNames : ClearRead(p, c, TRUE)

SpecOverlap == InitStore /\ [][NextOverlap]_vars

\* C25: after two overlapping runs have both completed (here with every
\* read, delete and write of both runs successful), the store
\* holds the records of exactly one run: at most one segmentation record per
\* customer and exactly one analysis-result record.
C25_OneRunSurvives ==
    ( /\ \A p \in Runs : procPc[p] = "done"
      /\ \A p \in Runs : \A c \in CollectionNames : clearing[p][c].status = "finished" )
    => /\ \A u \in 1..MaxStoreCustomers :
            Cardinality({ d \in collections["segmentation"] : d.id = u }) <= 1
       /\ Cardinality(collections["results"]) = 1
       /\ \E q \in Runs : \A c \in CollectionNames : collections[c] = StoreDocs(q, c)

\* customers and orders are fetched exactly once, before clustering starts
FetchedOnceBeforeClustering ==
    \A p \in Runs :
        /\ procPc[p] \notin {"idle"} =>
            fetchCount[p] = [customers |-> 1, orders |-> 1]
        /\ procPc[p] = "idle" => fetchCount[p] = [customers |-> 0, orders |-> 0]

BeforeClustered(p) == procPc[p] \in {"idle", "fetch", "cluster"}

\* no record is written or deleted by a run before its clustering has finished
NoStoreChangeBeforeClustered ==
    /\ \A p \in Runs : BeforeClustered(p) =>
          /\ \A c \in CollectionNames : collections'[c] \cap StoreDocs(p, c) = {}
          /\ \A c \in CollectionNames : clearing[p][c].status = "none"
    /\ collections' # collections => \E p \in Runs : ~BeforeClustered(p)

\* a run writes only when all its clearCollection calls have ended
WritesAfterClearing ==
    \A p \in Runs : \A c \in CollectionNames :
        (collections'[c] \cap StoreDocs(p, c)) # (collections[c] \cap StoreDocs(p, c))
            => \/ ClearEnded(p)
               \/ collections'[c] \subseteq collections[c]

\* the metadata record is written after all segmentation and center records
MetadataLast ==
    \A p \in Runs :
        /\ ~(collections'["results"] \cap StoreDocs(p, "results") \subseteq collections["results"])
            => procPc[p] = "saveMetadata"
        /\ ~(collections'["centers"] \cap StoreDocs(p, "centers") \subseteq collections["centers"])
            => procPc[p] = "saveCenters"
        /\ (procPc[p] = "saveSegmentations" /\ procPc'[p] = "saveCenters")
            => StoreDocs(p, "segmentation") \subseteq collections'["segmentation"]
        /\ (procPc[p] = "saveCenters" /\ procPc'[p] = "saveMetadata")
            => StoreDocs(p, "centers") \subseteq collections'["centers"]

\* C27: within one run customers and orders are fetched exactly once before
\* clustering, no record is deleted or written before clustering has
\* finished, every write happens after the clearing step has ended, and the
\* metadata record is written only after all segmentation and center records.
C27_FixedOrder ==
    /\ []FetchedOnceBeforeClustering
    /\ [][NoStoreChangeBeforeClustered]_vars
    /\ [][WritesAfterClearing]_vars
    /\ [][MetadataLast]_vars

\* the order of the steps apart from the end of the clearing
OrderApartFromClearing ==
    /\ []FetchedOnceBeforeClustering
    /\ [][NoStoreChangeBeforeClustered]_vars
    /\ [][MetadataLast]_vars

====
